---- MODULE Spec2Model ----
(***************************************************************************)
(* The wasm operator host of inspektor-gadget: the handle table of a wasm  *)
(* operator instance, the host functions the instance exports to its guest *)
(* (module "env"), the subscriber closure that calls the guest's           *)
(* dsCallback, and the instance lifecycle (Prepare/Init, Start, Stop).     *)
(* The data-source bus (package datasource) and stringFromStack are not    *)
(* part of the sources at hand; they are modelled from the specification   *)
(* (section 4.1 and section 4.2, "String ownership").                      *)
(* Beside the instance's own behaviour (Spec, SpecConc) the module has the *)
(* guest's field accessors on one field (SpecABI), Stop step by step       *)
(* (SpecLife, SpecLifeFair) and the OCI handler's loops over the image     *)
(* operator instances (SpecOci), the subscriber of the trace_dns gadget    *)
(* (SpecDns), subscription priorities (SpecPrio), the validation of the    *)
(* gadget metadata (SpecMeta), the host file system of an instance         *)
(* (SpecFS), re-entrant emission (SpecReentry), the frozen schema          *)
(* (SpecFreeze), the imports of a guest against the host's exports         *)
(* (SpecLink), the execsnoop trace (SpecTrace), Populate on the metadata   *)
(* (SpecPopulate), the init of the trace_dns guest (SpecDnsInit) and the   *)
(* common flags of the CLI (SpecFlags).                                    *)
(***************************************************************************)
EXTENDS Integers, Sequences, FiniteSets, TLC

\* ---------------------------------------------------------------- bounds

\* The largest handle id. The code uses uint32 ids (2^32 - 1); the model
\* wraps the counter modulo MaxHandle + 1 instead of modulo 2^32.
MaxHandle == 3

\* Records that can be allocated in one run (NewData calls, host and guest).
MaxRecords == 2

\* Host calls of the guest that change the host's state in one run (a call
\* counts where it changes the state; calls that fail or only read can be
\* repeated without end).
MaxCalls == 3

\* ------------------------------------------------------- program constants

Kind_Invalid == 0
Kind_Bool == 1
Kind_Int8 == 2
Kind_Int16 == 3
Kind_Int32 == 4
Kind_Int64 == 5
Kind_Uint8 == 6
Kind_Uint16 == 7
Kind_Uint32 == 8
Kind_Uint64 == 9
Kind_Float32 == 10
Kind_Float64 == 11
Kind_String == 12
Kind_CString == 13

\* ----------------------------------------------------------------- values

\* Number of distinct uint32 values of the model (2^32 in the code).
HandleSpace == MaxHandle + 1

HandleIds == 0 .. MaxHandle

\* Names of data sources: "dns" is registered by the kernel-side operator
\* before the guest runs; "open" is registered by a second kernel-side
\* operator or created by the guest, depending on the gadget.
SourceNames == {"dns", "open"}

\* Field names; a data source of a kernel-side operator has the field "name".
FieldNames == {"name"}

\* Priorities a guest passes to dataSourceSubscribe.
Prios == {0}

\* Priority of the host's downstream subscriber (the sink).
SinkPrio == 1

\* Values a guest stores into a field.
Values == {1}

\* Kinds a guest passes to fieldAccessorGet / fieldAccessorSet.
Kinds == {Kind_Bool, Kind_Int8, Kind_Uint32, Kind_Float32}

\* Threads: the lifecycle thread and one producer thread per host source.
LifeThread == "life"

Threads == {LifeThread} \cup SourceNames

\* Host objects a handle can refer to.
NilObj == [kind |-> "nil", ds |-> "", ref |-> 0]

DSObj(d) == [kind |-> "ds", ds |-> d, ref |-> 0]

FieldObj(d, f) == [kind |-> "field", ds |-> d, ref |-> 1]

DataObj(d, r) == [kind |-> "data", ds |-> d, ref |-> r]

FieldOf(o) == "name"

EmptyMap == [h \in {} |-> NilObj]

\* ------------------------------------------------------------ handle table

\* A search loop that takes the counter's id whether or not it is live.
AddHandleLoop_TakesLiveId(map, ctr, xctr) == ctr

\* The search loop of addHandle: xctr counts the iterations, handleCtr is
\* not advanced inside the loop.
RECURSIVE AddHandleLoop(_, _, _)
AddHandleLoop(map, ctr, xctr) ==
    IF xctr > HandleSpace THEN 0
    ELSE IF ctr \notin DOMAIN map THEN ctr
    ELSE AddHandleLoop(map, ctr, xctr + 1)

\* handleCtr++ ; if handleCtr == 0 { handleCtr++ }
NextCtr(ctr) ==
    LET c == (ctr + 1) % HandleSpace
    IN  IF c = 0 THEN (c + 1) % HandleSpace ELSE c

\* addHandle on the table (map, isNil, ctr): the id returned, the table and
\* the counter after the call, and whether the call panicked (a write into
\* the nil map that Stop leaves behind).
AddHandle(map, isNil, ctr, obj) ==
    IF obj = NilObj
    THEN [id |-> 0, map |-> map, ctr |-> ctr, panic |-> FALSE]
    ELSE LET c  == NextCtr(ctr)
             id == AddHandleLoop(map, c, 0)
         IN  IF id = 0
             THEN [id |-> 0, map |-> map, ctr |-> c, panic |-> FALSE]
             ELSE IF isNil
             THEN [id |-> 0, map |-> map, ctr |-> c, panic |-> TRUE]
             ELSE [id |-> id, map |-> (id :> obj) @@ map, ctr |-> c,
                   panic |-> FALSE]

\* What a call of addHandle with a non-nil object did, for the record of
\* the step: the id it returned and the non-zero ids that were free before.
Added(map, r) ==
    IF r.panic THEN {}
    ELSE {[id |-> r.id, free |-> (1 .. MaxHandle) \ DOMAIN map]}

\* getHandle: the object, or nil when the id is not a key.
GetHandle(map, id) == IF id \in DOMAIN map THEN map[id] ELSE NilObj

\* A delHandle that leaves the entry in the table.
DelHandle_KeepsEntry(map, id) == map

\* delHandle: delete(handleMap, id), a no-op on a missing key or a nil map.
DelHandle(map, id) == [h \in DOMAIN map \ {id} |-> map[h]]

\* ------------------------------------------------------- string references

\* A string reference handed over by the guest: readable (pointer and length
\* inside the guest's memory) with its content, or unreadable.
Ref(s) == [readable |-> TRUE, str |-> s]

BadNameRef == [readable |-> FALSE, str |-> ""]

BadBytesRef == [readable |-> FALSE, str |-> <<>>]

SourceRefs == {Ref(n) : n \in SourceNames} \cup {BadNameRef}

FieldRefs == {Ref(n) : n \in FieldNames} \cup {BadNameRef}

\* Strings a guest passes to fieldAccessorSetString (byte sequences).
ByteRefs == {Ref(<<1>>), BadBytesRef}

\* stringFromStack: the bytes the reference points to, or an error.
StringFromStack(ref) == [err |-> ~ref.readable, str |-> ref.str]

\* The pointer the guest's malloc returns.
MallocPtr == 1

\* A packing that shifts the length by one bit too few.
Pack_ShortShift(len, ptr) == len * MaxHandle + ptr

\* uint64(len) << 32 | ptr, on the model's uint32 range.
Pack(len, ptr) == len * HandleSpace + ptr

\* wapi.DecodeI32: the uint32 read as a signed 32-bit integer.
DecodeI32(v) == IF 2 * v >= HandleSpace THEN v - HandleSpace ELSE v

\* ---------------------------------------------------------- data-source bus

SinkSub == [prio |-> SinkPrio, guest |-> FALSE, cbID |-> 0]

GuestSub(prio, cbID) == [prio |-> prio, guest |-> TRUE, cbID |-> cbID]

\* A data source as the kernel-side operator registers it.
HostSource == [host |-> TRUE, fields |-> {"name"}, frozen |-> FALSE,
               subs |-> <<SinkSub>>]

\* A data source as RegisterDataSource creates it.
NewSource == [host |-> FALSE, fields |-> {}, frozen |-> FALSE, subs |-> <<>>]

\* Subscribe: lower priority numbers first, ties in registration order.
InsertSub(subs, s) ==
    LET k == Cardinality({i \in 1 .. Len(subs) : subs[i].prio <= s.prio})
    IN  SubSeq(subs, 1, k) \o <<s>> \o SubSeq(subs, k + 1, Len(subs))

\* NewData: a zero-initialised record of data source d.
NewRecord(d) == [ds |-> d, released |-> FALSE, vals |-> [f \in FieldNames |-> <<>>]]

\* ------------------------------------------------------------------- state

VARIABLES
    handleMap,     \* wasmOperatorInstance.handleMap (its entries)
    handleMapNil,  \* handleMap == nil (after Stop)
    handleCtr,     \* wasmOperatorInstance.handleCtr
    exports,       \* the functions the guest module exports
    phase,         \* position of the instance in its lifecycle
    dataSources,   \* gadget context: registered data sources by name
    records,       \* records allocated so far (index = record id)
    stack,         \* per thread: the frames in progress, innermost last
    lastCall,      \* the host call made by the last step, if any
    calls,         \* state-changing host calls made so far
    hostPanic,     \* a host goroutine panicked
    trapped,       \* a guest dsCallback call has trapped
    sinkSeen,      \* records delivered to the host's sink subscribers
    stopResult,    \* what Stop returned ("": Stop has not been called)
    mod,           \* the guest module: "none", "open" or "closed"
    guestIO,       \* a guest's exchange of one value or string with the host
    oci            \* the OCI handler: its image operator instances

vars == <<handleMap, handleMapNil, handleCtr, exports, phase, dataSources,
          records, stack, lastCall, calls, hostPanic, trapped, sinkSeen,
          stopResult, mod, guestIO, oci>>

table == <<handleMap, handleMapNil, handleCtr>>

\* The state of the scenarios that run beside the instance's own.
side == <<guestIO, oci>>

\* The record of a step's host call: the function, whether a handle argument
\* was 0, the value of stack[0] at the return, the failure (if any), the
\* record reached through the data handle (0: none) and whether that record
\* had been released before, the addHandle calls of the step and the handle
\* the call deleted (0: none).
NoCall == [fn |-> "", zero |-> FALSE, ret |-> 0, fail |-> "", rec |-> 0,
           stale |-> FALSE, adds |-> {}, freed |-> 0]

Call(fn, zero, ret, fail) ==
    [fn |-> fn, zero |-> zero, ret |-> ret, fail |-> fail, rec |-> 0,
     stale |-> FALSE, adds |-> {}, freed |-> 0]

\* Guest modules of the model: the exports they provide.
ExportSets ==
    { {"malloc", "free", "init", "start", "stop", "dsCallback"},
      {"malloc", "init", "start"} }

\* A host call that reached record r through its data handle.
Reached(fn, ret, r) ==
    [fn |-> fn, zero |-> FALSE, ret |-> ret, fail |-> "", rec |-> r,
     stale |-> records[r].released, adds |-> {}, freed |-> 0]

\* A host call that reached record r and failed afterwards.
ReachedFail(fn, r, fail) ==
    [fn |-> fn, zero |-> FALSE, ret |-> 0, fail |-> fail, rec |-> r,
     stale |-> records[r].released, adds |-> {}, freed |-> 0]

InitFrame == [type |-> "init", ds |-> "", rec |-> 0, idx |-> 0, err |-> FALSE,
              tmpDS |-> 0, tmpData |-> 0]

EmitFrame(d, r) == [type |-> "emit", ds |-> d, rec |-> r, idx |-> 1, err |-> FALSE,
                    tmpDS |-> 0, tmpData |-> 0]

\* The subscriber closure at work for record r of data source d: it has
\* added the first temporary handle ("adding"), is inside cb.Call ("cb"),
\* or has deleted the first temporary handle and holds the result of the
\* call ("deleting").
CbFrame(d, r, h1, h2) == [type |-> "cb", ds |-> d, rec |-> r, idx |-> 0, err |-> FALSE,
                          tmpDS |-> h1, tmpData |-> h2]

AddingFrame(d, r, h1) == [CbFrame(d, r, h1, 0) EXCEPT !.type = "adding"]

\* The call of the guest's start in progress.
StartFrame == [InitFrame EXCEPT !.type = "start"]

\* The call of the guest's stop in progress; the guest returns at some
\* point, or never does.
StopFrame(hangs) == [InitFrame EXCEPT !.type = IF hangs THEN "stophang" ELSE "stop"]

\* A host function in progress on a thread. getHandle, addHandle and
\* delHandle hold handleLock for their own call only and the data source
\* takes its own lock, so a host function is a sequence of steps with other
\* threads in between; the frame holds what the function holds between
\* them. This one: the function has found or made obj and is before its
\* addHandle(obj).
HostFrame(fn, obj) ==
    [type |-> "host", ds |-> obj.ds, rec |-> obj.ref, idx |-> 0, err |-> FALSE,
     tmpDS |-> 0, tmpData |-> 0, fn |-> fn, obj |-> obj, h |-> 0, arg |-> 0,
     data |-> NilObj, str |-> <<>>, stale |-> FALSE]

\* A host function that holds the object of its first handle and has the
\* data handle dh (stack[1]) still to look up; h is stack[0] where the
\* function leaves it to the guest as its result (0 where it overwrites it).
LookupFrame(fn, h, obj, dh) ==
    [HostFrame(fn, obj) EXCEPT !.type = "lookup", !.h = h, !.arg = dh]

\* A host function that holds the objects of its handles (data: the record
\* of its data handle, if it takes one) and has not used them yet.
WorkFrame(f, data) == [f EXCEPT !.type = "work", !.data = data, !.arg = 0]

\* A host function that takes a data source handle only and holds the data
\* source.
SourceFrame(fn, ds) == WorkFrame(LookupFrame(fn, 0, ds, 0), NilObj)

\* fieldAccessorGetString inside the call of the guest's malloc: it holds
\* the string it has read and whether the record was released at the read.
MallocFrame(f, str, stale) ==
    [f EXCEPT !.type = "malloc", !.str = str, !.stale = stale]

Top(t) == stack[t][Len(stack[t])]

Pop(t) == SubSeq(stack[t], 1, Len(stack[t]) - 1)

Push(t, f) == [stack EXCEPT ![t] = Append(@, f)]

\* Thread t runs guest code: host calls come from there. A stop that hangs
\* ("stophang") calls nothing.
InGuest(t) == Len(stack[t]) > 0 /\ Top(t).type \in {"init", "start", "stop", "cb"}

\* The guest code that runs on thread t calls a host function. Module "env"
\* is built once with every function, so each export of the guest can call
\* each of them.
HostCall(t) == InGuest(t)

\* Thread t is emitting on data source d (holds the source's lock).
Emitting(t, d) == \E i \in 1 .. Len(stack[t]) :
                     stack[t][i].type = "emit" /\ stack[t][i].ds = d

\* No exchange of the guest with a field in progress.
NoIO == [step |-> "none"]

\* No OCI handler at work.
NoOci == [step |-> "none"]

\* InstantiateImageOperator: an empty handle table; the kernel-side data
\* sources are registered.
Init ==
    /\ handleMap = EmptyMap
    /\ handleMapNil = FALSE
    /\ handleCtr = 0
    /\ exports \in ExportSets
    /\ phase = "Loaded"
    /\ dataSources = [d \in {"dns"} |-> HostSource]
    /\ records = <<>>
    /\ stack = [t \in Threads |-> <<>>]
    /\ lastCall = NoCall
    /\ calls = 0
    /\ hostPanic = FALSE
    /\ trapped = FALSE
    /\ sinkSeen = {}
    /\ stopResult = ""
    /\ mod = "none"
    /\ guestIO = NoIO
    /\ oci = NoOci

\* --------------------------------------------------------------- lifecycle

bus == <<dataSources, records, sinkSeen>>

env == <<exports, stopResult, mod, side, phase, calls>>

\* Prepare: the module is instantiated, then the guest's init is called if
\* it is exported.
PrepareBegin ==
    /\ ~hostPanic
    /\ phase = "Loaded"
    /\ IF "init" \in exports
       THEN /\ phase' = "Preparing"
            /\ stack' = Push(LifeThread, InitFrame)
       ELSE /\ phase' = "Prepared"
            /\ UNCHANGED stack
    /\ mod' = "open"
    /\ lastCall' = NoCall
    /\ UNCHANGED <<table, exports, stopResult, side, calls, bus, hostPanic, trapped>>

\* The guest's init returns (0, non-zero) or traps; the OCI handler logs a
\* failed Prepare and keeps the instance.
PrepareEnd ==
    /\ ~hostPanic
    /\ phase = "Preparing"
    /\ Len(stack[LifeThread]) = 1
    /\ phase' = "Prepared"
    /\ stack' = [stack EXCEPT ![LifeThread] = <<>>]
    /\ lastCall' = NoCall
    /\ UNCHANGED <<table, exports, stopResult, mod, side, calls, bus, hostPanic, trapped>>

\* Start: the guest's start is called if it is exported.
StartBegin ==
    /\ ~hostPanic
    /\ phase = "Prepared"
    /\ IF "start" \in exports
       THEN /\ phase' = "Starting"
            /\ stack' = Push(LifeThread, StartFrame)
       ELSE /\ phase' = "Running"
            /\ UNCHANGED stack
    /\ lastCall' = NoCall
    /\ UNCHANGED <<table, exports, stopResult, mod, side, calls, bus, hostPanic, trapped>>

\* The guest's start returns (0, non-zero) or traps; the OCI handler logs a
\* failed Start and goes on.
StartEnd ==
    /\ ~hostPanic
    /\ phase = "Starting"
    /\ stack[LifeThread] = <<StartFrame>>
    /\ phase' = "Running"
    /\ stack' = [stack EXCEPT ![LifeThread] = <<>>]
    /\ lastCall' = NoCall
    /\ UNCHANGED <<table, exports, stopResult, mod, side, calls, bus, hostPanic, trapped>>

\* What Stop returns: nil without calling the guest when stop is not
\* exported, else the result of the call (nil, the guest's error, or the
\* error of the context that expires after five seconds).
StopResults(exp) ==
    IF "stop" \in exp THEN {"ok", "error", "timeout"} ELSE {"none"}

\* A runtime without WithCloseOnContextDone.
ModAfterStop_StaysOpen(m, result) == m

\* The module after Stop: the runtime is built with
\* WithCloseOnContextDone(true), so the expiry of the context of the stop
\* call closes the module; Stop itself closes nothing.
ModAfterStop(m, result) == IF result = "timeout" THEN "closed" ELSE m

\* A Stop without the deferred cleanup.
StopCleanup_Missing == UNCHANGED <<handleMap, handleMapNil>>

\* The deferred cleanup of Stop: handleMap = nil.
StopCleanup ==
    /\ handleMap' = EmptyMap
    /\ handleMapNil' = TRUE

\* Stop up to the call of the guest's stop under the context that expires
\* after five seconds; without the export Stop returns nil at once and the
\* deferred cleanup runs.
StopBegin(hangs) ==
    /\ ~hostPanic
    /\ phase = "Running"
    /\ IF "stop" \in exports
       THEN /\ phase' = "Stopping"
            /\ stack' = Push(LifeThread, StopFrame(hangs))
            /\ UNCHANGED <<handleMap, handleMapNil, stopResult, mod>>
       ELSE /\ ~hangs
            /\ phase' = "Stopped"
            /\ stopResult' \in StopResults(exports)
            /\ mod' = ModAfterStop(mod, stopResult')
            /\ StopCleanup
            /\ UNCHANGED stack
    /\ lastCall' = NoCall
    /\ UNCHANGED <<handleCtr, exports, side, calls, bus, hostPanic, trapped>>

\* The guest's stop returns, with or without an error, before the context
\* expires: Stop returns that result and the deferred cleanup runs.
StopReturn(r) ==
    /\ ~hostPanic
    /\ phase = "Stopping"
    /\ stack[LifeThread] = <<StopFrame(FALSE)>>
    /\ r \in StopResults(exports) \ {"timeout"}
    /\ phase' = "Stopped"
    /\ stopResult' = r
    /\ mod' = ModAfterStop(mod, r)
    /\ StopCleanup
    /\ stack' = [stack EXCEPT ![LifeThread] = <<>>]
    /\ lastCall' = NoCall
    /\ UNCHANGED <<handleCtr, exports, side, calls, bus, hostPanic, trapped>>

\* The context expires while the guest's stop is running: the runtime closes
\* the module, the call returns the context's error, Stop returns it and
\* the deferred cleanup runs.
StopTimeout ==
    /\ ~hostPanic
    /\ phase = "Stopping"
    /\ Len(stack[LifeThread]) = 1
    /\ phase' = "Stopped"
    /\ stopResult' = "timeout"
    /\ mod' = ModAfterStop(mod, "timeout")
    /\ StopCleanup
    /\ stack' = [stack EXCEPT ![LifeThread] = <<>>]
    /\ lastCall' = NoCall
    /\ UNCHANGED <<handleCtr, exports, side, calls, bus, hostPanic, trapped>>

\* ---------------------------------------------------------------- emission

\* Data source d is free for thread t: no other thread is emitting on it.
LockFree(t, d) == \A u \in Threads \ {t} : ~Emitting(u, d)

\* A kernel-side producer allocates a record of its data source and calls
\* EmitAndRelease: the schema freezes and delivery starts.
EmitBegin(t) ==
    /\ ~hostPanic
    /\ t \in DOMAIN dataSources
    /\ dataSources[t].host
    /\ phase \in {"Prepared", "Starting", "Running", "Stopping", "Stopped"}
    /\ stack[t] = <<>>
    /\ Len(records) < MaxRecords
    /\ LockFree(t, t)
    /\ records' = Append(records, NewRecord(t))
    /\ dataSources' = [dataSources EXCEPT ![t].frozen = TRUE]
    /\ stack' = Push(t, EmitFrame(t, Len(records) + 1))
    /\ lastCall' = NoCall
    /\ UNCHANGED <<table, env, hostPanic, trapped, sinkSeen>>

\* The next subscriber of the emission is a host sink: it gets the record.
DeliverSink(t) ==
    /\ ~hostPanic
    /\ Len(stack[t]) > 0
    /\ Top(t).type = "emit"
    /\ Top(t).idx <= Len(dataSources[Top(t).ds].subs)
    /\ ~dataSources[Top(t).ds].subs[Top(t).idx].guest
    /\ sinkSeen' = sinkSeen \cup {Top(t).rec}
    /\ stack' = [stack EXCEPT ![t][Len(stack[t])].idx = @ + 1]
    /\ lastCall' = NoCall
    /\ UNCHANGED <<table, env, dataSources, records, hostPanic, trapped>>

\* The next subscriber is the closure dataSourceSubscribe registered: its
\* first step is tmpDS := addHandle(source). addHandle holds handleLock for
\* the one call only.
DeliverGuest(t) ==
    /\ ~hostPanic
    /\ Len(stack[t]) > 0
    /\ Top(t).type = "emit"
    /\ Top(t).idx <= Len(dataSources[Top(t).ds].subs)
    /\ dataSources[Top(t).ds].subs[Top(t).idx].guest
    /\ LET f  == Top(t)
           r1 == AddHandle(handleMap, handleMapNil, handleCtr, DSObj(f.ds))
       IN  /\ handleMap' = r1.map
           /\ handleCtr' = r1.ctr
           /\ hostPanic' = r1.panic
           /\ stack' = IF r1.panic THEN stack
                       ELSE Push(t, AddingFrame(f.ds, f.rec, r1.id))
           /\ lastCall' = [NoCall EXCEPT !.adds = Added(handleMap, r1)]
    /\ UNCHANGED <<handleMapNil, env, bus, trapped>>

\* The closure goes on: tmpData := addHandle(data), then cb.Call enters the
\* guest's dsCallback.
DeliverCall(t) ==
    /\ ~hostPanic
    /\ Len(stack[t]) > 0
    /\ Top(t).type = "adding"
    /\ LET f  == Top(t)
           r2 == AddHandle(handleMap, handleMapNil, handleCtr,
                           DataObj(records[f.rec].ds, f.rec))
       IN  /\ handleMap' = r2.map
           /\ handleCtr' = r2.ctr
           /\ hostPanic' = r2.panic
           /\ stack' = IF r2.panic THEN stack
                       ELSE [stack EXCEPT ![t][Len(stack[t])] =
                                CbFrame(f.ds, f.rec, f.tmpDS, r2.id)]
           /\ lastCall' = [NoCall EXCEPT !.adds = Added(handleMap, r2)]
    /\ UNCHANGED <<handleMapNil, env, bus, trapped>>

\* cb.Call returns (trap = TRUE: with an error) and the closure deletes the
\* first temporary handle.
CallbackReturn(t, trap) ==
    /\ ~hostPanic
    /\ Len(stack[t]) > 1
    /\ Top(t).type = "cb"
    /\ handleMap' = DelHandle(handleMap, Top(t).tmpDS)
    /\ stack' = [stack EXCEPT ![t][Len(stack[t])].type = "deleting",
                              ![t][Len(stack[t])].err = trap]
    /\ trapped' = (trapped \/ trap)
    /\ lastCall' = NoCall
    /\ UNCHANGED <<handleMapNil, handleCtr, env, bus, hostPanic>>

\* The closure deletes the second temporary handle and reports the error of
\* the call to EmitAndRelease, which goes on with the next subscriber and
\* keeps the first error.
CallbackEnd(t) ==
    /\ ~hostPanic
    /\ Len(stack[t]) > 1
    /\ Top(t).type = "deleting"
    /\ handleMap' = DelHandle(handleMap, Top(t).tmpData)
    /\ stack' = [stack EXCEPT ![t] =
                    [Pop(t) EXCEPT ![Len(stack[t]) - 1].idx = @ + 1,
                                   ![Len(stack[t]) - 1].err = @ \/ Top(t).err]]
    /\ lastCall' = NoCall
    /\ UNCHANGED <<handleMapNil, handleCtr, env, bus, hostPanic, trapped>>

\* Every subscriber has been called: the record is released. An emission the
\* guest started through dataSourceEmitAndRelease returns to the host
\* function, which drops the error and hands 0 to the guest.
EmitEnd(t) ==
    /\ ~hostPanic
    /\ Len(stack[t]) > 0
    /\ Top(t).type = "emit"
    /\ Top(t).idx > Len(dataSources[Top(t).ds].subs)
    /\ records' = [records EXCEPT ![Top(t).rec].released = TRUE]
    /\ stack' = [stack EXCEPT ![t] = Pop(t)]
    /\ lastCall' = IF Len(stack[t]) > 1
                   THEN [Call("dataSourceEmitAndRelease", FALSE, 0,
                              IF Top(t).err THEN "emit" ELSE "")
                            EXCEPT !.rec = Top(t).rec]
                   ELSE NoCall
    /\ UNCHANGED <<table, env, dataSources, hostPanic, trapped, sinkSeen>>

\* --------------------------------------------------- values of a field

\* Values cross the boundary in a 64-bit stack slot. A value, a slot and the
\* content of a field are sequences of bytes, least significant first, so
\* that every width of the code is kept as it is.
SlotBytes == 8

SignedKinds == {Kind_Int8, Kind_Int16, Kind_Int32, Kind_Int64}

UnsignedKinds == {Kind_Uint8, Kind_Uint16, Kind_Uint32, Kind_Uint64}

FloatKinds == {Kind_Float32, Kind_Float64}

\* The kinds that have typed accessors in the guest API.
TypedKinds == SignedKinds \cup UnsignedKinds \cup FloatKinds

\* The size in bytes of a value of kind k.
Width(k) ==
    IF k \in {Kind_Int8, Kind_Uint8} THEN 1
    ELSE IF k \in {Kind_Int16, Kind_Uint16} THEN 2
    ELSE IF k \in {Kind_Int32, Kind_Uint32, Kind_Float32} THEN 4
    ELSE 8

Zeros(n) == [i \in 1 .. n |-> 0]

\* b widened to n bytes, the new bytes being fill.
Widen(b, n, fill) == b \o [i \in 1 .. (n - Len(b)) |-> fill]

\* The conversion of an integer of Len(b) bytes to uint64: sign extension
\* for a signed type, zero extension for an unsigned one.
ToUint64(b, signed) ==
    Widen(b, SlotBytes, IF signed /\ b[Len(b)] >= 128 THEN 255 ELSE 0)

\* The conversion T(x) of a uint64 to an integer type of w bytes.
Truncate(slot, w) == SubSeq(slot, 1, w)

\* The bytes of the integer n, 0 <= n < 2^31, as a uint64.
IntToUint64(n) ==
    [i \in 1 .. SlotBytes |-> IF i <= 4 THEN (n \div (256 ^ (i - 1))) % 256 ELSE 0]

\* The integer part of sig * 2^shift.
Scale(sig, shift) ==
    IF shift >= 0 THEN sig * (2 ^ shift)
    ELSE IF shift < -31 THEN 0
    ELSE sig \div (2 ^ (0 - shift))

\* uint64(f) of a float32 given by its bits: the integer part of f, for the
\* finite f with 0 <= f < 2^31.
Float32ToUint64(b) ==
    LET bits == b[1] + 256 * b[2] + 65536 * b[3] + 16777216 * b[4]
        e    == bits \div 8388608
        m    == bits % 8388608
    IN  IntToUint64(IF e < 127 THEN 0 ELSE Scale(8388608 + m, e - 150))

\* uint64(f) of a float64 given by its bits: the integer part of f, for the
\* finite f with 0 <= f < 2^31 whose low 32 bits of the mantissa are 0.
Float64ToUint64(b) ==
    LET hi == b[5] + 256 * b[6] + 65536 * b[7] + 16777216 * b[8]
        e  == hi \div 1048576
        m  == hi % 1048576
    IN  IntToUint64(IF e < 1023 THEN 0 ELSE Scale(1048576 + m, e - 1043))

SetByKind_BoolAsByte(kind, slot, data) ==
    IF kind \in SignedKinds \cup UnsignedKinds
    THEN [data |-> Truncate(slot, Width(kind)), warn |-> FALSE]
    ELSE IF kind = Kind_Bool
    THEN [data |-> Truncate(slot, 1), warn |-> FALSE]
    ELSE [data |-> data, warn |-> TRUE]

\* The switch of fieldAccessorSet: acc.Put<k>(data, T(stack[3])) for the
\* integer kinds; every other kind (the floats among them) is an unknown
\* kind, which stores nothing and logs a warning.
SetByKind(kind, slot, data) ==
    IF kind \in SignedKinds \cup UnsignedKinds
    THEN [data |-> Truncate(slot, Width(kind)), warn |-> FALSE]
    ELSE [data |-> data, warn |-> TRUE]

\* The switch of fieldAccessorGet: stack[0] = uint64(acc.<k>(data)); for
\* the floats this converts the number, not its bits.
GetByKind(kind, data) ==
    IF kind \in SignedKinds THEN [slot |-> ToUint64(data, TRUE), warn |-> FALSE]
    ELSE IF kind \in UnsignedKinds THEN [slot |-> ToUint64(data, FALSE), warn |-> FALSE]
    ELSE IF kind = Kind_Float32 THEN [slot |-> Float32ToUint64(data), warn |-> FALSE]
    ELSE IF kind = Kind_Float64 THEN [slot |-> Float64ToUint64(data), warn |-> FALSE]
    ELSE [slot |-> Zeros(SlotBytes), warn |-> TRUE]

\* -------------------------------------------------------------- host calls

\* Thread t is inside a host function, in a frame of the given type.
At(t, type) == Len(stack[t]) > 0 /\ Top(t).type = type

\* Thread t is inside host function fn with its handles resolved.
AtWork(t, fn) == At(t, "work") /\ Top(t).fn = fn

\* The frames of thread t below the host function in progress.
GuestPart(t) == IF InGuest(t) THEN stack[t] ELSE Pop(t)

\* The value a host function hands to the guest when a handle does not
\* resolve.
OnError(fn) ==
    IF fn \in {"dataSourceSubscribe", "dataSourceEmitAndRelease", "dataSourceRelease"}
    THEN 1 ELSE 0

\* A return that has moved the handle counter on the way.
Returns_AdvancesCounter(t, call) ==
    /\ lastCall' = call
    /\ stack' = [stack EXCEPT ![t] = GuestPart(t)]
    /\ handleCtr' = NextCtr(handleCtr)
    /\ UNCHANGED <<handleMap, handleMapNil, env, bus, hostPanic, trapped>>

\* The host function returns to the guest code of thread t and changes
\* nothing but its return value.
Returns(t, call) ==
    /\ lastCall' = call
    /\ stack' = [stack EXCEPT ![t] = GuestPart(t)]
    /\ UNCHANGED <<table, env, bus, hostPanic, trapped>>

\* A failure path that hands the guest the other one of the values 0 and 1.
HandleNotFound_OtherValue(t, fn, zero, ret) ==
    Returns(t, Call(fn, zero, 1 - ret, "handle"))

\* The handle does not resolve to an object of the wanted type: a warning is
\* logged, stack[0] is set to ret and the host function returns.
HandleNotFound(t, fn, zero, ret) == Returns(t, Call(fn, zero, ret, "handle"))

\* The host call changes the host's state: it counts against MaxCalls.
Counted ==
    /\ calls < MaxCalls
    /\ calls' = calls + 1
    /\ UNCHANGED <<exports, stopResult, mod, side, phase>>

\* getHandle has returned an object of the wanted type and released
\* handleLock: the host function goes on in frame f, and other threads run
\* before its next step.
Resolved(t, f) ==
    /\ stack' = Push(t, f)
    /\ lastCall' = NoCall
    /\ UNCHANGED <<table, env, bus, hostPanic, trapped>>

\* The host call has found or made obj and ends with addHandle(obj).
\* getHandle and addHandle each hold handleLock for their own call only, so
\* other threads run between the lookups and addHandle.
ReturnsHandle(t, fn, obj) ==
    /\ stack' = [stack EXCEPT ![t] = Append(GuestPart(t), HostFrame(fn, obj))]
    /\ lastCall' = NoCall
    /\ Counted
    /\ UNCHANGED <<table, hostPanic, trapped>>

\* addHandle(obj) at the end of a host call: the handle is the call's return
\* value.
HostAddHandle(t) ==
    /\ ~hostPanic
    /\ At(t, "host")
    /\ LET f == Top(t)
           r == AddHandle(handleMap, handleMapNil, handleCtr, f.obj)
       IN  /\ handleMap' = r.map
           /\ handleCtr' = r.ctr
           /\ hostPanic' = r.panic
           /\ stack' = IF r.panic THEN stack ELSE [stack EXCEPT ![t] = Pop(t)]
           /\ lastCall' = [Call(f.fn, FALSE, r.id, IF r.id = 0 THEN "nohandle" ELSE "")
                              EXCEPT !.adds = Added(handleMap, r)]
    /\ UNCHANGED <<handleMapNil, env, bus, trapped>>

\* freeHost(entry): the guest frees a handle it holds (delHandle).
freeHost(t, h) ==
    /\ ~hostPanic /\ HostCall(t)
    /\ IF h \notin DOMAIN handleMap
       THEN Returns(t, Call("freeHost", h = 0, 0, ""))
       ELSE /\ handleMap' = DelHandle(handleMap, h)
            /\ lastCall' = [Call("freeHost", FALSE, 0, "") EXCEPT !.freed = h]
            /\ Counted
            /\ UNCHANGED <<handleMapNil, handleCtr, bus, stack, hostPanic, trapped>>

\* The handle resolves to an object of the wanted type (the checked type
\* assertion on getHandle's result).
IsA(h, kind) == GetHandle(handleMap, h).kind = kind

\* The second lookup of a host function that takes a data handle:
\* getHandle(stack[1]) and the type assertion, in a lock section of its own.
LookupData(t) ==
    /\ ~hostPanic
    /\ At(t, "lookup")
    /\ LET f == Top(t)
       IN  IF ~IsA(f.arg, "data")
           THEN HandleNotFound(t, f.fn, f.arg = 0, OnError(f.fn))
           ELSE /\ stack' = [stack EXCEPT ![t][Len(stack[t])] =
                                WorkFrame(f, GetHandle(handleMap, f.arg))]
                /\ lastCall' = NoCall
                /\ UNCHANGED <<table, env, bus, hostPanic, trapped>>

\* xlog(msg): the string is read and logged, or a warning is logged when it
\* cannot be read. The function has no result.
xlog(t, ref) ==
    /\ ~hostPanic /\ HostCall(t)
    /\ Returns(t, Call("xlog", FALSE, 0,
                       IF StringFromStack(ref).err THEN "string" ELSE ""))

\* mfree(ptr): the host calls the guest's export free. A guest without that
\* export makes ExportedFunction return nil, and the call on it panics
\* inside the host function; the runtime recovers the panic and ends the
\* guest's call in progress with an error, as a trap does.
mfree(t) ==
    /\ ~hostPanic /\ HostCall(t)
    /\ IF "free" \in exports
       THEN Returns(t, Call("mfree", FALSE, 0, ""))
       ELSE CASE Top(t).type = "cb" -> CallbackReturn(t, TRUE)
              [] Top(t).type = "init" -> PrepareEnd
              [] Top(t).type = "start" -> StartEnd
              [] OTHER -> StopReturn("error")

\* newDataSource(name)
newDataSource(t, ref) ==
    /\ ~hostPanic /\ HostCall(t)
    /\ LET s == StringFromStack(ref)
       IN  IF s.err
           THEN Returns(t, Call("newDataSource", FALSE, 0, "string"))
           ELSE IF s.str \in DOMAIN dataSources
           THEN Returns(t, Call("newDataSource", FALSE, 0, "exists"))
           ELSE /\ dataSources' = (s.str :> NewSource) @@ dataSources
                /\ ReturnsHandle(t, "newDataSource", DSObj(s.str))
                /\ UNCHANGED <<records, sinkSeen>>

\* getDataSource(name)
getDataSource(t, ref) ==
    /\ ~hostPanic /\ HostCall(t)
    /\ LET s == StringFromStack(ref)
       IN  IF s.err
           THEN Returns(t, Call("getDataSource", FALSE, 0, "string"))
           ELSE IF s.str \notin DOMAIN dataSources
           THEN Returns(t, Call("getDataSource", FALSE, 0, "missing"))
           ELSE /\ ReturnsHandle(t, "getDataSource", DSObj(s.str))
                /\ UNCHANGED bus

\* dataSourceGetField(ds, name): the lookup of the data source handle.
dataSourceGetField(t, h) ==
    /\ ~hostPanic /\ HostCall(t)
    /\ IF ~IsA(h, "ds")
       THEN HandleNotFound(t, "dataSourceGetField", h = 0, 0)
       ELSE Resolved(t, SourceFrame("dataSourceGetField", GetHandle(handleMap, h)))

\* dataSourceGetField goes on with the data source it holds: the name is
\* read and ds.GetField looks the field up.
GetField(t) ==
    /\ ~hostPanic /\ AtWork(t, "dataSourceGetField")
    /\ \E ref \in FieldRefs :
          LET s == StringFromStack(ref)
              d == Top(t).obj.ds
          IN  IF s.err
              THEN Returns(t, Call("dataSourceGetField", FALSE, 0, "string"))
              ELSE IF s.str \notin dataSources[d].fields
              THEN \* GetField returns nil and addHandle(nil) returns 0
                   Returns(t, Call("dataSourceGetField", FALSE,
                                   AddHandle(handleMap, handleMapNil, handleCtr, NilObj).id,
                                   "nofield"))
              ELSE /\ ReturnsHandle(t, "dataSourceGetField", FieldObj(d, s.str))
                   /\ UNCHANGED bus

AddFieldFails_DuplicateOnly(src, name) == name \in src.fields

\* ds.AddField returns an error: the schema is frozen, or the data source
\* has a field of that name.
AddFieldFails(src, name) == src.frozen \/ name \in src.fields

\* dataSourceAddField(ds, name): the lookup of the data source handle.
dataSourceAddField(t, h) ==
    /\ ~hostPanic /\ HostCall(t)
    /\ IF ~IsA(h, "ds")
       THEN HandleNotFound(t, "dataSourceAddField", h = 0, 0)
       ELSE Resolved(t, SourceFrame("dataSourceAddField", GetHandle(handleMap, h)))

\* dataSourceAddField goes on with the data source it holds: the name is
\* read and ds.AddField adds the field.
AddField(t) ==
    /\ ~hostPanic /\ AtWork(t, "dataSourceAddField")
    /\ \E ref \in FieldRefs :
          LET s == StringFromStack(ref)
              d == Top(t).obj.ds
          IN  IF s.err
              THEN Returns(t, Call("dataSourceAddField", FALSE, 0, "string"))
              ELSE IF AddFieldFails(dataSources[d], s.str)
              THEN Returns(t, Call("dataSourceAddField", FALSE, 0, "addfield"))
              ELSE /\ dataSources' = [dataSources EXCEPT ![d].fields = @ \cup {s.str}]
                   /\ ReturnsHandle(t, "dataSourceAddField", FieldObj(d, s.str))
                   /\ UNCHANGED <<records, sinkSeen>>

\* The callback ids a guest passes (the guest API numbers them from 1).
CbIds == {1}

\* dataSourceSubscribe(ds, prio, cbID): the lookup of the data source handle
\* and of the module's dsCallback.
dataSourceSubscribe(t, h) ==
    /\ ~hostPanic /\ HostCall(t)
    /\ IF ~IsA(h, "ds")
       THEN HandleNotFound(t, "dataSourceSubscribe", h = 0, 1)
       ELSE IF "dsCallback" \notin exports
       THEN Returns(t, Call("dataSourceSubscribe", FALSE, 1, "nocallback"))
       ELSE Resolved(t, SourceFrame("dataSourceSubscribe", GetHandle(handleMap, h)))

\* dataSourceSubscribe goes on with the data source it holds: ds.Subscribe
\* waits until no emission of the data source is in progress and registers
\* the closure.
Subscribe(t) ==
    /\ ~hostPanic /\ AtWork(t, "dataSourceSubscribe")
    /\ \E prio \in Prios, cbID \in CbIds :
          LET d == Top(t).obj.ds
          IN  /\ \A u \in Threads : ~Emitting(u, d)
              /\ dataSources' = [dataSources EXCEPT ![d].subs =
                                    InsertSub(@, GuestSub(DecodeI32(prio), cbID))]
              /\ stack' = [stack EXCEPT ![t] = Pop(t)]
              /\ lastCall' = Call("dataSourceSubscribe", FALSE, 0, "")
              /\ Counted
              /\ UNCHANGED <<table, records, sinkSeen, hostPanic, trapped>>

\* dataSourceNewData(ds): the lookup of the data source handle.
dataSourceNewData(t, h) ==
    /\ ~hostPanic /\ HostCall(t)
    /\ IF ~IsA(h, "ds")
       THEN HandleNotFound(t, "dataSourceNewData", h = 0, 0)
       ELSE Resolved(t, SourceFrame("dataSourceNewData", GetHandle(handleMap, h)))

\* dataSourceNewData goes on with the data source it holds: ds.NewData
\* allocates a record.
NewData(t) ==
    /\ ~hostPanic /\ AtWork(t, "dataSourceNewData")
    /\ LET d == Top(t).obj.ds
       IN  /\ Len(records) < MaxRecords
           /\ records' = Append(records, NewRecord(d))
           /\ ReturnsHandle(t, "dataSourceNewData", DataObj(d, Len(records) + 1))
           /\ UNCHANGED <<dataSources, sinkSeen>>

\* dataSourceEmitAndRelease(ds, data): the lookup of the data source handle.
dataSourceEmitAndRelease(t, h, dh) ==
    /\ ~hostPanic /\ HostCall(t)
    /\ IF ~IsA(h, "ds")
       THEN HandleNotFound(t, "dataSourceEmitAndRelease", h = 0 \/ dh = 0, 1)
       ELSE Resolved(t, LookupFrame("dataSourceEmitAndRelease", 0,
                                    GetHandle(handleMap, h), dh))

\* dataSourceEmitAndRelease goes on with the data source and the record it
\* holds: ds.EmitAndRelease waits for the data source and starts the
\* emission; its end is EmitEnd, where the host function returns.
EmitAndRelease(t) ==
    /\ ~hostPanic /\ AtWork(t, "dataSourceEmitAndRelease")
    /\ LET d == Top(t).obj.ds
           r == Top(t).data.ref
       IN  /\ LockFree(t, d)
           /\ dataSources' = [dataSources EXCEPT ![d].frozen = TRUE]
           /\ stack' = [stack EXCEPT ![t] = Append(Pop(t), EmitFrame(d, r))]
           /\ lastCall' = Reached("dataSourceEmitAndRelease.enter", 0, r)
           /\ Counted
           /\ UNCHANGED <<table, records, sinkSeen, hostPanic, trapped>>

\* dataSourceRelease(ds, data): the lookup of the data source handle.
dataSourceRelease(t, h, dh) ==
    /\ ~hostPanic /\ HostCall(t)
    /\ IF ~IsA(h, "ds")
       THEN HandleNotFound(t, "dataSourceRelease", h = 0 \/ dh = 0, 1)
       ELSE Resolved(t, LookupFrame("dataSourceRelease", 0,
                                    GetHandle(handleMap, h), dh))

\* dataSourceRelease goes on with the data source and the record it holds:
\* ds.Release releases the record.
Release(t) ==
    /\ ~hostPanic /\ AtWork(t, "dataSourceRelease")
    /\ LET r == Top(t).data.ref
       IN  IF records[r].released
           THEN Returns(t, Reached("dataSourceRelease", 0, r))
           ELSE /\ records' = [records EXCEPT ![r].released = TRUE]
                /\ stack' = [stack EXCEPT ![t] = Pop(t)]
                /\ lastCall' = Reached("dataSourceRelease", 0, r)
                /\ Counted
                /\ UNCHANGED <<table, dataSources, sinkSeen, hostPanic, trapped>>

\* The outcomes of handing a string to the guest: malloc and the write into
\* the guest's memory succeed, malloc fails, or the write is out of range.
MallocOutcomes == {"ok", "malloc", "oom"}

\* fieldAccessorGetString(field, data): the lookup of the field handle.
fieldAccessorGetString(t, fh, dh) ==
    /\ ~hostPanic /\ HostCall(t)
    /\ IF ~IsA(fh, "field")
       THEN HandleNotFound(t, "fieldAccessorGetString", fh = 0 \/ dh = 0, 0)
       ELSE Resolved(t, LookupFrame("fieldAccessorGetString", 0,
                                    GetHandle(handleMap, fh), dh))

\* fieldAccessorGetString goes on with the accessor and the record it
\* holds: acc.String(data) reads the field, then the guest's malloc is
\* called.
AccessorString(t) ==
    /\ ~hostPanic /\ AtWork(t, "fieldAccessorGetString")
    /\ LET f == Top(t)
           r == f.data.ref
       IN  /\ stack' = [stack EXCEPT ![t][Len(stack[t])] =
                           MallocFrame(f, records[r].vals[FieldOf(f.obj)],
                                       records[r].released)]
           /\ lastCall' = NoCall
           /\ UNCHANGED <<table, env, bus, hostPanic, trapped>>

\* The guest's malloc returns and the host writes the string into the
\* guest's memory: fieldAccessorGetString returns the packed reference, or 0
\* when malloc or the write failed.
GuestMalloc(t) ==
    /\ ~hostPanic /\ At(t, "malloc")
    /\ \E m \in MallocOutcomes :
          LET f == Top(t)
          IN  Returns(t, [Call(f.fn, FALSE,
                               IF m = "ok" THEN Pack(Len(f.str), MallocPtr) ELSE 0,
                               IF m = "ok" THEN "" ELSE m)
                            EXCEPT !.rec = f.data.ref, !.stale = f.stale])

\* fieldAccessorSetString(field, data, str): the lookup of the field handle.
fieldAccessorSetString(t, fh, dh) ==
    /\ ~hostPanic /\ HostCall(t)
    /\ IF ~IsA(fh, "field")
       THEN HandleNotFound(t, "fieldAccessorSetString", fh = 0 \/ dh = 0, 0)
       ELSE Resolved(t, LookupFrame("fieldAccessorSetString", fh,
                                    GetHandle(handleMap, fh), dh))

\* fieldAccessorSetString goes on with the accessor and the record it
\* holds: the string is read and acc.Set stores it, or returns an error
\* (setErr) and the function logs a warning and returns 0. The fields of the
\* model have no static size (acc.Size() = 0). The function has no result:
\* on success stack[0] keeps the field handle.
AccessorSet(t) ==
    /\ ~hostPanic /\ AtWork(t, "fieldAccessorSetString")
    /\ \E ref \in ByteRefs, setErr \in BOOLEAN :
          LET s == StringFromStack(ref)
              r == Top(t).data.ref
              f == FieldOf(Top(t).obj)
          IN  IF s.err
              THEN /\ ~setErr
                   /\ Returns(t, Call("fieldAccessorSetString", FALSE, 0, "string"))
              ELSE IF setErr
              THEN Returns(t, ReachedFail("fieldAccessorSetString", r, "set"))
              ELSE /\ records' = [records EXCEPT ![r].vals[f] = s.str]
                   /\ stack' = [stack EXCEPT ![t] = Pop(t)]
                   /\ lastCall' = Reached("fieldAccessorSetString", Top(t).h, r)
                   /\ Counted
                   /\ UNCHANGED <<table, dataSources, sinkSeen, hostPanic, trapped>>

\* The kinds the switch of fieldAccessorGet reads.
GetKinds == SignedKinds \cup UnsignedKinds \cup FloatKinds

\* The kinds the switch of fieldAccessorSet writes.
SetKinds == SignedKinds \cup UnsignedKinds

\* The buffer of a field read in the width w of a kind: the bytes stored,
\* zero beyond them.
FieldBytes(bytes, w) ==
    Widen(SubSeq(bytes, 1, IF Len(bytes) < w THEN Len(bytes) ELSE w), w, 0)

\* The number in a stack slot, for the slots below 2^31.
Uint64ToInt(slot) == slot[1] + 256 * slot[2] + 65536 * slot[3] + 16777216 * slot[4]

\* fieldAccessorGet(field, data, kind): the lookup of the field handle.
fieldAccessorGet(t, fh, dh) ==
    /\ ~hostPanic /\ HostCall(t)
    /\ IF ~IsA(fh, "field")
       THEN HandleNotFound(t, "fieldAccessorGet", fh = 0 \/ dh = 0, 0)
       ELSE Resolved(t, LookupFrame("fieldAccessorGet", 0,
                                    GetHandle(handleMap, fh), dh))

\* fieldAccessorGet goes on with the accessor and the record it holds: the
\* switch on the kind reads the field.
AccessorGet(t) ==
    /\ ~hostPanic /\ AtWork(t, "fieldAccessorGet")
    /\ \E kind \in Kinds :
          LET r == Top(t).data.ref
              b == FieldBytes(records[r].vals[FieldOf(Top(t).obj)], Width(kind))
          IN  IF kind \in GetKinds
              THEN Returns(t, Reached("fieldAccessorGet",
                                      Uint64ToInt(GetByKind(kind, b).slot), r))
              ELSE Returns(t, ReachedFail("fieldAccessorGet", r, "kind"))

\* fieldAccessorSet(field, data, kind, value): the lookup of the field
\* handle.
fieldAccessorSet(t, fh, dh) ==
    /\ ~hostPanic /\ HostCall(t)
    /\ IF ~IsA(fh, "field")
       THEN HandleNotFound(t, "fieldAccessorSet", fh = 0 \/ dh = 0, 0)
       ELSE Resolved(t, LookupFrame("fieldAccessorSet", fh,
                                    GetHandle(handleMap, fh), dh))

\* fieldAccessorSet goes on with the accessor and the record it holds: the
\* switch on the kind stores the value. The function has no result:
\* stack[0] keeps the field handle, except for Kind_Int8, which reads back.
AccessorPut(t) ==
    /\ ~hostPanic /\ AtWork(t, "fieldAccessorSet")
    /\ \E kind \in Kinds, value \in Values :
          LET r == Top(t).data.ref
              f == FieldOf(Top(t).obj)
              w == SetByKind(kind, IntToUint64(value), records[r].vals[f]).data
          IN  IF kind \in SetKinds
              THEN /\ records' = [records EXCEPT ![r].vals[f] = w]
                   /\ stack' = [stack EXCEPT ![t] = Pop(t)]
                   /\ lastCall' = Reached("fieldAccessorSet",
                                           IF kind = Kind_Int8
                                           THEN Uint64ToInt(GetByKind(kind, w).slot)
                                           ELSE Top(t).h, r)
                   /\ Counted
                   /\ UNCHANGED <<table, dataSources, sinkSeen, hostPanic, trapped>>
              ELSE Returns(t, ReachedFail("fieldAccessorSet", r, "kind"))

\* ----------------------------------------------------------- specification

\* The data handles a guest passes along with the first handle h of a host
\* function that takes two: when h does not resolve to an object of the kind
\* the function wants, the function returns before it reads the data handle
\* and only the record of the call tells a 0 from another id, and that only
\* when h is not 0 itself.
DataArgs(h, kind) ==
    IF IsA(h, kind) THEN HandleIds ELSE IF h = 0 THEN {0} ELSE {0, 1}

\* The handles a guest passes where a host function wants an object of the
\* given kind: 0, every id that resolves to one, and the smallest id that
\* does not (the function tells no other id from it).
HandleArgs(kind) ==
    LET other == {h \in 1 .. MaxHandle : ~IsA(h, kind)}
    IN  {h \in HandleIds : h = 0 \/ IsA(h, kind)}
           \cup {h \in other : \A g \in other : h <= g}

\* The handles a guest passes to freeHost: 0, every live id and the smallest
\* id that is not live.
FreeArgs ==
    LET other == (1 .. MaxHandle) \ DOMAIN handleMap
    IN  {0} \cup DOMAIN handleMap \cup {h \in other : \A g \in other : h <= g}

\* The instance's life with the guest's host calls and the emissions. The
\* guest's stop is the one that may return: until it does, the context can
\* expire on it as on one that never returns (SpecLife has both).
Next ==
    \/ PrepareBegin
    \/ PrepareEnd
    \/ StartBegin
    \/ StartEnd
    \/ StopBegin(FALSE)
    \/ \E r \in {"ok", "error"} : StopReturn(r)
    \/ StopTimeout
    \/ \E t \in Threads : EmitBegin(t)
    \/ \E t \in Threads : DeliverSink(t)
    \/ \E t \in Threads : DeliverGuest(t)
    \/ \E t \in Threads : DeliverCall(t)
    \/ \E t \in Threads, trap \in BOOLEAN : CallbackReturn(t, trap)
    \/ \E t \in Threads : CallbackEnd(t)
    \/ \E t \in Threads : EmitEnd(t)
    \/ \E t \in Threads, ref \in SourceRefs : newDataSource(t, ref)
    \/ \E t \in Threads, ref \in SourceRefs : getDataSource(t, ref)
    \/ \E t \in Threads, h \in HandleArgs("ds") : dataSourceGetField(t, h)
    \/ \E t \in Threads : GetField(t)
    \/ \E t \in Threads, h \in HandleArgs("ds") : dataSourceAddField(t, h)
    \/ \E t \in Threads : AddField(t)
    \/ \E t \in Threads, h \in HandleArgs("ds") : dataSourceSubscribe(t, h)
    \/ \E t \in Threads : Subscribe(t)
    \/ \E t \in Threads, h \in HandleArgs("ds") : dataSourceNewData(t, h)
    \/ \E t \in Threads : NewData(t)
    \/ \E t \in Threads, h \in HandleArgs("ds") : \E dh \in DataArgs(h, "ds") :
          dataSourceEmitAndRelease(t, h, dh)
    \/ \E t \in Threads : EmitAndRelease(t)
    \/ \E t \in Threads, h \in HandleArgs("ds") : \E dh \in DataArgs(h, "ds") :
          dataSourceRelease(t, h, dh)
    \/ \E t \in Threads : Release(t)
    \/ \E t \in Threads, fh \in HandleArgs("field") : \E dh \in DataArgs(fh, "field") :
          fieldAccessorGetString(t, fh, dh)
    \/ \E t \in Threads : AccessorString(t)
    \/ \E t \in Threads : GuestMalloc(t)
    \/ \E t \in Threads, fh \in HandleArgs("field") : \E dh \in DataArgs(fh, "field") :
          fieldAccessorSetString(t, fh, dh)
    \/ \E t \in Threads : AccessorSet(t)
    \/ \E t \in Threads, fh \in HandleArgs("field") : \E dh \in DataArgs(fh, "field") :
          fieldAccessorGet(t, fh, dh)
    \/ \E t \in Threads : AccessorGet(t)
    \/ \E t \in Threads, fh \in HandleArgs("field") : \E dh \in DataArgs(fh, "field") :
          fieldAccessorSet(t, fh, dh)
    \/ \E t \in Threads : AccessorPut(t)
    \/ \E t \in Threads : LookupData(t)
    \/ \E t \in Threads : HostAddHandle(t)
    \/ \E t \in Threads, h \in FreeArgs : freeHost(t, h)
    \/ \E t \in Threads, ref \in ByteRefs : xlog(t, ref)
    \/ \E t \in Threads : mfree(t)

Spec == Init /\ [][Next]_vars

\* Two kernel-side data sources that emit concurrently, each from its own
\* producer thread, into a guest that subscribed to both: the state Prepare
\* leaves behind when the guest's init has looked up "dns" and "open"
\* (handles 1 and 2) and subscribed to each with priority 0.
InitConc ==
    /\ handleMap = (1 :> DSObj("dns")) @@ (2 :> DSObj("open"))
    /\ handleMapNil = FALSE
    /\ handleCtr = 2
    /\ exports = {"malloc", "init", "start", "stop", "dsCallback"}
    /\ phase = "Prepared"
    /\ dataSources = [d \in SourceNames |->
                        [HostSource EXCEPT !.subs = InsertSub(@, GuestSub(0, 1))]]
    /\ records = <<>>
    /\ stack = [t \in Threads |-> <<>>]
    /\ lastCall = NoCall
    /\ calls = 4
    /\ hostPanic = FALSE
    /\ trapped = FALSE
    /\ sinkSeen = {}
    /\ stopResult = ""
    /\ mod = "open"
    /\ guestIO = NoIO
    /\ oci = NoOci

\* The guest's dsCallback makes no host call of its own.
NextConc ==
    \/ StartBegin
    \/ StartEnd
    \/ \E hangs \in BOOLEAN : StopBegin(hangs)
    \/ \E r \in {"ok", "error"} : StopReturn(r)
    \/ StopTimeout
    \/ \E t \in Threads : EmitBegin(t)
    \/ \E t \in Threads : DeliverSink(t)
    \/ \E t \in Threads : DeliverGuest(t)
    \/ \E t \in Threads : DeliverCall(t)
    \/ \E t \in Threads, trap \in BOOLEAN : CallbackReturn(t, trap)
    \/ \E t \in Threads : CallbackEnd(t)
    \/ \E t \in Threads : EmitEnd(t)

SpecConc == InitConc /\ [][NextConc]_vars

\* ------------------------------------------------------------------ claims

\* C1: addHandle, called with a non-nil object, returns a non-zero id that
\* was free before the call whenever some non-zero id was free, and returns
\* 0 only when every non-zero id was live.
C1_AddHandleFindsFreeId ==
    \A a \in lastCall.adds :
        /\ a.free # {} => a.id \in a.free
        /\ a.id = 0 => a.free = {}

\* C2: an entry of the handle table keeps its object from step to step; it
\* leaves the table only by a delHandle of its id (the closure deletes its
\* temporary handles after the callback, the guest frees a handle with
\* freeHost) or when Stop clears the table; no addHandle overwrites a live
\* entry, and 0 is never a key of the table.
C2_HandleStableUntilDeleted ==
    [][ /\ 0 \notin DOMAIN handleMap'
        /\ \A h \in DOMAIN handleMap :
              IF h \in DOMAIN handleMap'
              THEN GetHandle(handleMap', h) = GetHandle(handleMap, h)
              ELSE \/ phase # "Stopped" /\ phase' = "Stopped"
                   \/ lastCall'.fn = "freeHost" /\ lastCall'.freed = h
                   \/ \E t \in Threads :
                         /\ stack[t] # <<>>
                         /\ \/ /\ Top(t).type = "cb"
                               /\ stack'[t][Len(stack[t])].type = "deleting"
                               /\ h = Top(t).tmpDS
                            \/ /\ Top(t).type = "deleting"
                               /\ Len(stack'[t]) = Len(stack[t]) - 1
                               /\ h = Top(t).tmpData ]_vars

\* C2, witness: the counter has wrapped around past the guest's handle 1,
\* which still resolves to the data source it was issued for, next to the
\* temporary handle of the second record (id 2, issued for the second time).
C2_Witness ==
    /\ handleCtr = 2
    /\ DOMAIN handleMap = {1, 2}
    /\ GetHandle(handleMap, 1) = DSObj("dns")
    /\ GetHandle(handleMap, 2) = DataObj("dns", 2)
    /\ \E a \in lastCall.adds : a.id = 2 /\ a.free = {2, 3}

\* C3: once Stop has returned (stop not exported, or the call returned,
\* failed or timed out), getHandle returns nothing for every id.
C3_StoppedTableEmpty ==
    phase = "Stopped" => \A h \in HandleIds : GetHandle(handleMap, h) = NilObj

\* C3, witness: Stop ran into the timeout while a callback was in progress
\* (its temporary handles and the guest's own handle were live).
C3_Witness ==
    /\ phase = "Stopped"
    /\ stopResult = "timeout"
    /\ \E t \in Threads : InGuest(t) /\ Top(t).tmpDS # 0 /\ Top(t).tmpData # 0
    /\ lastCall = NoCall

\* C4: the two temporary handles of a delivery to the guest are not live
\* before the closure adds them (the first when it starts, the second right
\* before it calls dsCallback); when the callback has returned, with or
\* without an error, the closure removes the first and then the second, and
\* ends.
C4_TempHandlesOnlyInCallback ==
    [][ \A t \in Threads :
          /\ ( /\ Len(stack'[t]) = Len(stack[t]) + 1
               /\ stack'[t][Len(stack'[t])].type = "adding"
               /\ stack'[t][Len(stack'[t])].tmpDS # 0 )
             => /\ stack'[t][Len(stack'[t])].tmpDS \notin DOMAIN handleMap
                /\ stack'[t][Len(stack'[t])].tmpDS \in DOMAIN handleMap'
          /\ ( /\ stack[t] # <<>>
               /\ Top(t).type = "adding"
               /\ stack'[t][Len(stack[t])].type = "cb"
               /\ stack'[t][Len(stack[t])].tmpData # 0 )
             => /\ stack'[t][Len(stack[t])].tmpData \notin DOMAIN handleMap
                /\ stack'[t][Len(stack[t])].tmpData \in DOMAIN handleMap'
          /\ ( /\ stack[t] # <<>>
               /\ Top(t).type = "cb"
               /\ stack'[t][Len(stack[t])].type = "deleting" )
             => Top(t).tmpDS \notin DOMAIN handleMap'
          /\ ( /\ stack[t] # <<>>
               /\ Top(t).type = "deleting"
               /\ Len(stack'[t]) = Len(stack[t]) - 1 )
             => Top(t).tmpData \notin DOMAIN handleMap' ]_vars

\* C4, witness: a callback that held two temporary handles has returned with
\* an error (the emission it belongs to has recorded the error) and the
\* handles are gone, while the guest's own handle is still live.
C4_Witness ==
    /\ \E t \in Threads :
          /\ stack[t] # <<>>
          /\ Top(t).type = "emit"
          /\ Top(t).err
    /\ handleCtr = 3
    /\ DOMAIN handleMap = {1}
    /\ ~handleMapNil

\* C5: callbacks into one instance are serialized: with the guest subscribed
\* to two data sources that emit concurrently, at no time do two threads
\* have a dsCallback invocation of the instance in progress.
C5_CallbacksSerialized ==
    Cardinality({t \in Threads :
                   \E i \in 1 .. Len(stack[t]) : stack[t][i].type = "cb"}) <= 1

\* C6: once a dsCallback call of the guest has trapped, the instance is
\* Stopped and its handle table is cleared.
C6_TrapStopsInstance ==
    trapped => /\ phase = "Stopped"
               /\ handleMapNil
               /\ handleMap = EmptyMap

\* C7: no host call reaches a record through a data handle after the record
\* has been released (by dataSourceRelease or at the end of an emission).
C7_ReleasedRecordUnreachable == ~lastCall.stale

\* C8: dataSourceEmitAndRelease returns 0 when the emission succeeded and 1
\* when it failed (a handle did not resolve, or a subscriber reported an
\* error); the record of an emission that took place is released.
C8_EmitAndReleaseResult ==
    lastCall.fn = "dataSourceEmitAndRelease" =>
        /\ lastCall.ret = (IF lastCall.fail = "" THEN 0 ELSE 1)
        /\ lastCall.rec # 0 => records[lastCall.rec].released

\* The host calls of claim C9 (each has a result).
ZeroHandleFns == {"dataSourceGetField", "dataSourceAddField", "dataSourceNewData",
                  "dataSourceEmitAndRelease", "fieldAccessorGet",
                  "fieldAccessorGetString"}

\* C9 (as stated): each of the six host calls returns 0 when one of its
\* handle arguments is 0.
C9_ZeroHandleReturnsZero ==
    (lastCall.zero /\ lastCall.fn \in ZeroHandleFns) => lastCall.ret = 0

\* C9 (amended): given 0 as a handle argument, the host call fails and
\* returns its failure value, which is 1 for dataSourceEmitAndRelease and 0
\* for the five other calls.
C9_ZeroHandleReturnsFailureValue ==
    (lastCall.zero /\ lastCall.fn \in ZeroHandleFns) =>
        /\ lastCall.fail = "handle"
        /\ lastCall.ret = (IF lastCall.fn = "dataSourceEmitAndRelease" THEN 1 ELSE 0)

\* C9, witness: dataSourceEmitAndRelease was called with a live data source
\* handle and 0 as the data handle, and returned 1.
C9_Witness ==
    /\ lastCall.fn = "dataSourceEmitAndRelease"
    /\ lastCall.zero
    /\ lastCall.ret = 1
    /\ DOMAIN handleMap # {}

\* The failures of claim C10: a handle that does not resolve, an unreadable
\* string reference, a name collision, a missing data source, an error of
\* AddField.
FailedCalls == {"handle", "string", "exists", "missing", "addfield"}

\* The frames of the guest and of the emissions on every thread: the stack
\* without the frames of host functions in progress.
GuestFrames(st) ==
    [t \in Threads |->
        SelectSeq(st[t], LAMBDA f : f.type \notin {"lookup", "work", "malloc", "host"})]

\* C10: a step in which a host call fails in one of these ways returns to
\* the guest (no trap, no panic, the guest's frames stay) and changes
\* neither the handle table, nor the data source registry, nor any record;
\* nor do the steps before it, in which the call looks its handles up.
C10_FailedCallChangesNothing ==
    [][ /\ lastCall'.fail \in FailedCalls =>
             /\ UNCHANGED <<handleMap, handleMapNil, handleCtr, dataSources, records,
                            hostPanic, trapped>>
             /\ GuestFrames(stack') = GuestFrames(stack)
             /\ \E t \in Threads : InGuest(t)' /\ stack'[t] = GuestFrames(stack)[t]
        /\ \A t \in Threads :
             (stack'[t] # stack[t] /\ (At(t, "lookup") \/ At(t, "work"))') =>
                UNCHANGED <<handleMap, handleMapNil, handleCtr, dataSources, records,
                            hostPanic, trapped>> ]_vars

\* C10, witness: newDataSource has failed on a name collision while the
\* guest held handles and a record existed.
C10_Witness ==
    /\ lastCall.fn = "newDataSource"
    /\ lastCall.fail = "exists"
    /\ DOMAIN handleMap # {}
    /\ Len(records) > 0

\* ------------------------------------------- typed fields across the ABI

\* Guest, Field.Set<k>(data, value): the argument uint64(value), for the
\* floats uint64(math.Float<n>bits(value)).
SetArg(kind, value) == ToUint64(value, kind \in SignedKinds)

\* Guest, Field.<k>(data): T(fieldAccessorGet(...)), for the floats
\* math.Float<n>frombits of it.
GetResult(kind, slot) == Truncate(slot, Width(kind))

\* Values of an integer type of w bytes: 0, 1, the largest signed value, the
\* smallest signed value (the middle of the unsigned range) and -1 (the
\* largest unsigned value).
IntSamples(w) ==
    { Zeros(w),
      Widen(<<1>>, w, 0),
      Widen(Widen(<<>>, w - 1, 255), w, 127),
      Widen(Zeros(w - 1), w, 128),
      Widen(<<>>, w, 255) }

\* The floats 0.0, 1.0 and 2.5 by their bits.
Float32Samples == { Zeros(4), <<0, 0, 128, 63>>, <<0, 0, 32, 64>> }

Float64Samples ==
    { Zeros(8), <<0, 0, 0, 0, 0, 0, 240, 63>>, <<0, 0, 0, 0, 0, 0, 4, 64>> }

\* Values of kind k.
Samples(k) ==
    IF k = Kind_Float32 THEN Float32Samples
    ELSE IF k = Kind_Float64 THEN Float64Samples
    ELSE IntSamples(Width(k))

\* ------------------------------------------------- strings across the ABI

\* The largest static size of a string field.
MaxSize == 2

\* Static sizes of string fields; 0 is a field of variable length.
StringSizes == {0, MaxSize}

\* Strings of at most n bytes over two letters.
RECURSIVE StringsUpTo(_)
StringsUpTo(n) ==
    IF n = 0 THEN {<<>>}
    ELSE LET shorter == StringsUpTo(n - 1)
         IN  shorter \cup {Append(b, c) : b \in {x \in shorter : Len(x) = n - 1},
                                          c \in {97, 98}}

\* Strings a guest passes; their length is a uint32 of the model.
Strings == StringsUpTo(MaxHandle)

\* ref >> 32
RefLen(ref) == ref \div HandleSpace

\* ref & 0xFFFFFFFF
RefPtr(ref) == ref % HandleSpace

\* A region of the guest's memory: the bytes at address ptr.
Region(ptr, bytes) == [ptr |-> ptr, bytes |-> bytes]

\* Memory().Read(ptr, len) on a memory that holds one region.
MemRead(region, ptr, len) ==
    IF ptr = region.ptr /\ len <= Len(region.bytes)
    THEN [ok |-> TRUE, bytes |-> SubSeq(region.bytes, 1, len)]
    ELSE [ok |-> FALSE, bytes |-> <<>>]

\* Guest, toStringPtr(s) for a string that lives at address ptr.
ToStringPtr(s, ptr) == Pack(Len(s), ptr)

\* stringFromStack(m, ref): the bytes at the pointer of the reference, in
\* the length of the reference.
StringFromMemory(region, ref) == MemRead(region, RefPtr(ref), RefLen(ref))

\* Guest, stringPtr.String(): the reference 0 is the empty string; every
\* other reference is read and its buffer freed, except that unsafe.String
\* panics on a nil pointer with a length above 0.
StringPtrString(region, ref) ==
    IF ref = 0
    THEN [str |-> <<>>, read |-> FALSE, freed |-> FALSE, panic |-> FALSE]
    ELSE IF RefPtr(ref) = 0 /\ RefLen(ref) > 0
    THEN [str |-> <<>>, read |-> FALSE, freed |-> FALSE, panic |-> TRUE]
    ELSE [str |-> MemRead(region, RefPtr(ref), RefLen(ref)).bytes,
          read |-> TRUE, freed |-> TRUE, panic |-> FALSE]

\* A fieldAccessorSetString that cuts a string that is too long.
SetStringBuf_Cuts(size, buf, data, setErr) ==
    IF setErr
    THEN [data |-> data, warn |-> TRUE, set |-> TRUE, fail |-> "set"]
    ELSE [data |-> SubSeq(Widen(buf, size, 0), 1, IF size = 0 THEN Len(buf) ELSE size),
          warn |-> FALSE, set |-> TRUE, fail |-> ""]

\* fieldAccessorSetString after the string was read: a string longer than a
\* non-zero static size is refused with a warning; a shorter one is filled
\* up with zero bytes to the static size; acc.Set stores the buffer, or
\* returns an error (setErr), which is logged as a warning.
SetStringBuf(size, buf, data, setErr) ==
    IF size # 0 /\ Len(buf) > size
    THEN [data |-> data, warn |-> TRUE, set |-> FALSE, fail |-> "toolong"]
    ELSE IF setErr
    THEN [data |-> data, warn |-> TRUE, set |-> TRUE, fail |-> "set"]
    ELSE [data |-> IF size # 0 THEN Widen(buf, size, 0) ELSE buf,
          warn |-> FALSE, set |-> TRUE, fail |-> ""]

\* acc.String(data): the bytes of the field's buffer.
AccString(data) == data

\* What a step passed across the boundary as a string: the reference, the
\* (length, pointer) pair it was packed from and the pair it was decoded to,
\* whether the guest read and freed memory for it, whether acc.Set was
\* called, and the failure of the step.
NoStr == [ref |-> 0, sent |-> <<0, 0>>, seen |-> <<0, 0>>, read |-> FALSE,
          freed |-> FALSE, set |-> FALSE, fail |-> ""]

\* A guest at work on one field of a record: the field's kind and static
\* size, its content, the last operation of the guest with its argument and
\* its result, whether the host logged a warning during it, and whether a
\* Set<k> of the guest came before (for a string: one whose acc.Set did not
\* return an error).
FieldIO(kind, size, data) ==
    [step |-> "idle", kind |-> kind, size |-> size, data |-> data,
     value |-> <<>>, got |-> <<>>, warn |-> FALSE, wasSet |-> FALSE,
     str |-> NoStr, arg |-> kind, before |-> data]

\* A record with a field of every typed kind, fresh from NewData (zeroed) or
\* filled by a kernel-side producer.
InitTyped ==
    \E k \in TypedKinds : \E d \in Samples(k) :
        guestIO = FieldIO(k, Width(k), d)

\* Guest: Set<k>(data, v) on the field of kind k.
FieldSet(v) ==
    /\ guestIO.step \in {"idle", "set", "get"}
    /\ guestIO.kind \in TypedKinds
    /\ v \in Samples(guestIO.kind)
    /\ LET r == SetByKind(guestIO.kind, SetArg(guestIO.kind, v), guestIO.data)
       IN  guestIO' = [guestIO EXCEPT !.step = "set", !.data = r.data,
                                     !.value = v, !.got = <<>>,
                                     !.warn = r.warn, !.wasSet = TRUE]
    /\ UNCHANGED <<table, exports, stopResult, mod, phase, calls, bus, stack,
                   lastCall, hostPanic, trapped, oci>>

\* Guest: <k>(data) on the field of kind k.
FieldGet ==
    /\ guestIO.step \in {"idle", "set"}
    /\ guestIO.kind \in TypedKinds
    /\ LET r == GetByKind(guestIO.kind, guestIO.data)
       IN  guestIO' = [guestIO EXCEPT !.step = "get",
                                     !.got = GetResult(guestIO.kind, r.slot),
                                     !.warn = r.warn]
    /\ UNCHANGED <<table, exports, stopResult, mod, phase, calls, bus, stack,
                   lastCall, hostPanic, trapped, oci>>

\* A record with a string field of static size 0 or MaxSize, fresh from
\* NewData.
InitString ==
    \E size \in StringSizes : guestIO = FieldIO(Kind_String, size, Zeros(size))

\* Addresses at which a guest string of the given length can live: an empty
\* string may have a nil data pointer.
StringPtrs(len) == IF len = 0 THEN 0 .. MaxHandle ELSE 1 .. MaxHandle

\* Guest: SetString(data, str) on the string field, str living at ptr.
FieldSetString(str, ptr, setErr) ==
    /\ guestIO.step \in {"idle", "setstr", "getstr"}
    /\ guestIO.kind = Kind_String
    /\ LET ref == ToStringPtr(str, ptr)
           in  == StringFromMemory(Region(ptr, str), ref)
           r   == SetStringBuf(guestIO.size, in.bytes, guestIO.data, setErr)
           x   == [NoStr EXCEPT !.ref = ref, !.sent = <<Len(str), ptr>>,
                                !.seen = <<RefLen(ref), RefPtr(ref)>>]
       IN  IF ~in.ok
           THEN guestIO' = [guestIO EXCEPT !.step = "setstr", !.value = str,
                                          !.got = <<>>, !.warn = TRUE,
                                          !.wasSet = TRUE,
                                          !.str = [x EXCEPT !.fail = "string"]]
           ELSE guestIO' = [guestIO EXCEPT !.step = "setstr", !.value = str,
                                          !.got = <<>>, !.data = r.data,
                                          !.warn = r.warn,
                                          !.wasSet = (r.fail # "set"),
                                          !.str = [x EXCEPT !.set = r.set,
                                                            !.fail = r.fail]]
    /\ UNCHANGED <<table, exports, stopResult, mod, phase, calls, bus, stack,
                   lastCall, hostPanic, trapped, oci>>

\* Guest: String(data) on the string field; the guest's malloc fails, or
\* returns ptr and the write succeeds or is out of range. A guest that
\* panics in stringPtr.String() gets no string.
FieldString(m, ptr) ==
    /\ guestIO.step \in {"idle", "setstr"}
    /\ guestIO.kind = Kind_String
    /\ LET str == AccString(guestIO.data)
           ref == IF m = "ok" THEN Pack(Len(str), ptr) ELSE 0
           out == StringPtrString(Region(ptr, str), ref)
           x   == [NoStr EXCEPT !.ref = ref,
                                !.sent = IF m = "ok" THEN <<Len(str), ptr>> ELSE <<0, 0>>,
                                !.seen = <<RefLen(ref), RefPtr(ref)>>,
                                !.read = out.read, !.freed = out.freed,
                                !.fail = IF m # "ok" THEN m
                                         ELSE IF out.panic THEN "panic" ELSE ""]
       IN  guestIO' = [guestIO EXCEPT !.step = "getstr", !.got = out.str,
                                      !.warn = (m # "ok"), !.str = x]
    /\ UNCHANGED <<table, exports, stopResult, mod, phase, calls, bus, stack,
                   lastCall, hostPanic, trapped, oci>>

\* The largest kind number a guest passes.
MaxKind == 14

\* Kind numbers a guest can pass to fieldAccessorGet / fieldAccessorSet.
KindNumbers == 0 .. MaxKind

\* The kind numbers followed on a field of kind k: k itself and every number
\* that is not a typed kind (a typed kind other than k reaches an accessor
\* of package datasource with a field of another type).
KindsOn(k) == {k} \cup (KindNumbers \ TypedKinds)

\* The host function fieldAccessorGet called with any kind number on the
\* field: got is the value left in stack[0].
HostGet(kind) ==
    /\ guestIO.step \in {"idle", "set", "get"}
    /\ guestIO.kind \in TypedKinds
    /\ LET r == GetByKind(kind, guestIO.data)
       IN  guestIO' = [guestIO EXCEPT !.step = "hostget", !.arg = kind,
                                     !.before = guestIO.data,
                                     !.got = r.slot, !.warn = r.warn]
    /\ UNCHANGED <<table, exports, stopResult, mod, phase, calls, bus, stack,
                   lastCall, hostPanic, trapped, oci>>

\* The host function fieldAccessorSet called with any kind number and the
\* slot of a value of the field's kind.
HostSet(kind, v) ==
    /\ guestIO.step \in {"idle", "set", "get"}
    /\ guestIO.kind \in TypedKinds
    /\ v \in Samples(guestIO.kind)
    /\ LET r == SetByKind(kind, SetArg(guestIO.kind, v), guestIO.data)
       IN  guestIO' = [guestIO EXCEPT !.step = "hostset", !.arg = kind,
                                     !.before = guestIO.data, !.value = v,
                                     !.data = r.data, !.got = <<>>,
                                     !.warn = r.warn]
    /\ UNCHANGED <<table, exports, stopResult, mod, phase, calls, bus, stack,
                   lastCall, hostPanic, trapped, oci>>

InitABI ==
    /\ handleMap = EmptyMap
    /\ handleMapNil = FALSE
    /\ handleCtr = 0
    /\ exports = {"malloc", "init", "start", "stop", "dsCallback"}
    /\ phase = "Running"
    /\ dataSources = [d \in {"dns"} |-> HostSource]
    /\ records = <<>>
    /\ stack = [t \in Threads |-> <<>>]
    /\ lastCall = NoCall
    /\ calls = 0
    /\ hostPanic = FALSE
    /\ trapped = FALSE
    /\ sinkSeen = {}
    /\ stopResult = ""
    /\ mod = "open"
    /\ oci = NoOci
    /\ (InitTyped \/ InitString)

NextABI ==
    \/ \E v \in Samples(guestIO.kind) : FieldSet(v)
    \/ FieldGet
    \/ \E str \in Strings, setErr \in BOOLEAN : \E ptr \in StringPtrs(Len(str)) :
          FieldSetString(str, ptr, setErr)
    \/ \E m \in MallocOutcomes : \E ptr \in 0 .. MaxHandle : FieldString(m, ptr)
    \/ \E kind \in KindsOn(guestIO.kind) : HostGet(kind)
    \/ \E kind \in KindsOn(guestIO.kind) : \E v \in Samples(guestIO.kind) :
          HostSet(kind, v)

\* The guest's field accessors on one field of one record.
SpecABI == InitABI /\ [][NextABI]_vars

\* C11: the guest's Set<k>(v) followed by <k>() on a field of kind k gives
\* back v, for each of the ten typed kinds.
C11_TypedRoundTrip ==
    (guestIO.step = "get" /\ guestIO.wasSet) => guestIO.got = guestIO.value

\* C12: fieldAccessorSetString with a string longer than the non-zero static
\* size of the field leaves the content of the field as it was, does not
\* call acc.Set, and logs a warning.
C12_TooLongStringRefused ==
    [][ (guestIO'.step = "setstr" /\ guestIO.size # 0
           /\ Len(guestIO'.value) > guestIO.size)
        => (/\ guestIO'.data = guestIO.data
            /\ ~guestIO'.str.set
            /\ guestIO'.warn) ]_vars

\* C12, witness: a field of static size MaxSize that holds an earlier string
\* has refused a longer one.
C12_Witness ==
    /\ guestIO.step = "setstr"
    /\ guestIO.size = MaxSize
    /\ Len(guestIO.value) > guestIO.size
    /\ guestIO.data # Zeros(guestIO.size)
    /\ guestIO.warn

\* C13: SetString(s) followed by String() on a string field gives back
\* exactly s, whenever s is no longer than the static size of the field or
\* the field has no static size, and the guest's malloc succeeded.
C13_StringRoundTrip ==
    (/\ guestIO.step = "getstr"
     /\ guestIO.wasSet
     /\ guestIO.str.fail = ""
     /\ (guestIO.size = 0 \/ Len(guestIO.value) <= guestIO.size))
    => guestIO.got = guestIO.value

\* C14: a string reference decodes to the (length, pointer) pair it was
\* packed from, for every length and every pointer of the uint32 range and
\* on both sides of the boundary, and the guest takes the reference 0 for
\* the empty string without reading or freeing memory.
C14_StringRefRoundTrip ==
    /\ \A len \in 0 .. MaxHandle, ptr \in 0 .. MaxHandle :
          /\ RefLen(Pack(len, ptr)) = len
          /\ RefPtr(Pack(len, ptr)) = ptr
    /\ guestIO.step \in {"setstr", "getstr"} => guestIO.str.seen = guestIO.str.sent
    /\ (guestIO.step = "getstr" /\ guestIO.str.ref = 0)
          => (guestIO.got = <<>> /\ ~guestIO.str.read /\ ~guestIO.str.freed)

\* C14, witness: the host has returned the longest string at the highest
\* address and the guest has decoded the reference, read the string and
\* freed the buffer.
C14_Witness ==
    /\ guestIO.step = "getstr"
    /\ guestIO.str.sent = <<MaxHandle, MaxHandle>>
    /\ guestIO.str.seen = <<MaxHandle, MaxHandle>>
    /\ guestIO.str.ref = Pack(MaxHandle, MaxHandle)
    /\ Len(guestIO.got) = MaxHandle
    /\ guestIO.str.freed

\* ------------------------------------------------- Stop, step by step

\* fn.Call on the module works: the function is exported and the module has
\* not been closed.
Callable(e) == mod = "open" /\ e \in exports

\* A prepared instance that subscribed to both data sources, of a guest that
\* exports stop or does not.
InitLife ==
    /\ handleMap = (1 :> DSObj("dns")) @@ (2 :> DSObj("open"))
    /\ handleMapNil = FALSE
    /\ handleCtr = 2
    /\ exports \in { {"malloc", "init", "start", "stop", "dsCallback"},
                     {"malloc", "init", "start", "dsCallback"} }
    /\ phase = "Prepared"
    /\ dataSources = [d \in SourceNames |->
                        [HostSource EXCEPT !.subs = InsertSub(@, GuestSub(0, 1))]]
    /\ records = <<>>
    /\ stack = [t \in Threads |-> <<>>]
    /\ lastCall = NoCall
    /\ calls = 4
    /\ hostPanic = FALSE
    /\ trapped = FALSE
    /\ sinkSeen = {}
    /\ stopResult = ""
    /\ mod = "open"
    /\ guestIO = NoIO
    /\ oci = NoOci

NextLife ==
    \/ StartBegin
    \/ StartEnd
    \/ \E hangs \in BOOLEAN : StopBegin(hangs)
    \/ \E r \in {"ok", "error"} : StopReturn(r)
    \/ StopTimeout
    \/ \E t \in Threads : EmitBegin(t)
    \/ \E t \in Threads : DeliverSink(t)
    \/ \E t \in Threads : DeliverGuest(t)
    \/ \E t \in Threads : DeliverCall(t)
    \/ \E t \in Threads, trap \in BOOLEAN : CallbackReturn(t, trap)
    \/ \E t \in Threads : CallbackEnd(t)
    \/ \E t \in Threads : EmitEnd(t)

SpecLife == InitLife /\ [][NextLife]_vars

\* The timer of the context of the stop call fires if the call is still in
\* progress; nothing else is assumed to make progress.
SpecLifeFair == SpecLife /\ WF_vars(StopTimeout)

\* C16: once the guest's stop has been called, Stop ends, whether or not
\* the guest returns: the instance is Stopped with its handle table cleared,
\* and after the timeout the module is closed.
C16_StopTerminates ==
    (phase = "Stopping")
      ~> (/\ phase = "Stopped"
          /\ handleMapNil /\ handleMap = EmptyMap
          /\ (stopResult = "timeout" => mod = "closed"))

\* C16, witness: a guest's stop that never returns has been abandoned on
\* the timeout, with handles in the table when Stop began.
C16_Witness ==
    /\ phase = "Stopped"
    /\ stopResult = "timeout"
    /\ mod = "closed"
    /\ handleMapNil
    /\ stack[LifeThread] = <<>>
    /\ handleCtr >= 2

\* C17: after a Stop that returned normally the guest module is closed and
\* none of the guest's exports can be called any more.
C17_StoppedModuleClosed ==
    (phase = "Stopped" /\ stopResult \in {"ok", "none"})
    => (/\ mod = "closed"
        /\ \A e \in {"dsCallback", "init", "start", "stop"} : ~Callable(e))

\* ------------------------------------------------------- the OCI handler

\* Image operator instances (wasm layers) of one image.
MaxInstances == 2

\* Guest modules of the layers, by the lifecycle exports they provide.
LayerExports == { {"init", "start", "stop"}, {"init", "start"}, {} }

\* What a guest's init or start does when it is called.
GuestOutcomes == {"ret0", "ret1", "trap"}

\* What i.init meets: the layer's content cannot be read, the module exits
\* with a non-zero code while it is instantiated, instantiation fails in
\* another way, or the module is instantiated.
InstantiateOutcomes == {"nocontent", "exit", "panic", "ok"}

\* The result of a step of an instance: the error it returns ("nil": none),
\* whether it panicked instead, the module afterwards, and whether guest
\* code ran.
StepResult(err, panic, m, ran) ==
    [err |-> err, panic |-> panic, mod |-> m, ran |-> ran]

\* A call of a guest export whose return value is not looked at.
GuestCall_IgnoresReturn(name, guest) ==
    IF guest = "trap" THEN name \o " trapped" ELSE "nil"

\* fn.Call of init or start and the test of ret[0]: the error of the call,
\* "<name> failed" for a non-zero return value, nil for 0.
GuestCall(name, guest) ==
    IF guest = "trap" THEN name \o " trapped"
    ELSE IF guest # "ret0" THEN name \o " failed"
    ELSE "nil"

\* i.init: the runtime and the module. A module that exited is returned
\* closed together with the error; any other failure of the instantiation
\* panics; without the layer's content no module is set.
InstantiateModule(inst) ==
    IF inst = "nocontent" THEN StepResult("getting wasm program", FALSE, "none", FALSE)
    ELSE IF inst = "exit" THEN StepResult("exit", FALSE, "closed", FALSE)
    ELSE IF inst = "panic" THEN StepResult("", TRUE, "none", FALSE)
    ELSE StepResult("nil", FALSE, "open", FALSE)

\* Prepare: i.init, then Init, which calls the guest's init if it is
\* exported.
PrepareResult(exps, inst, guest) ==
    LET r == InstantiateModule(inst)
    IN  IF r.panic \/ r.err # "nil" THEN r
        ELSE IF "init" \notin exps THEN r
        ELSE StepResult(GuestCall("init", guest), FALSE, r.mod, TRUE)

\* Start: calls the guest's start if it is exported. On an instance without
\* module (i.mod == nil) the lookup of the export panics; on a closed module
\* the call fails without running the guest.
StartResult(exps, m, guest) ==
    IF m = "none" THEN StepResult("", TRUE, m, FALSE)
    ELSE IF "start" \notin exps THEN StepResult("nil", FALSE, m, FALSE)
    ELSE IF m = "closed" THEN StepResult("module closed", FALSE, m, FALSE)
    ELSE StepResult(GuestCall("start", guest), FALSE, m, TRUE)

\* Stop: calls the guest's stop if it is exported and returns the error of
\* the call, whatever the guest returns.
WasmStopResult(exps, m, r) ==
    IF m = "none" THEN StepResult("", TRUE, m, FALSE)
    ELSE IF "stop" \notin exps THEN StepResult("nil", FALSE, m, FALSE)
    ELSE IF m = "closed" THEN StepResult("module closed", FALSE, m, FALSE)
    ELSE StepResult(IF r = "ok" THEN "nil" ELSE r, FALSE, ModAfterStop(m, r), TRUE)

\* A loop that ends at the first instance that returns an error.
NextIdx_EndsOnError(i, n, err) == IF err = "nil" THEN i + 1 ELSE n + 1

\* The loops over the n instances go on from instance i to the next one,
\* whatever error the step of instance i returned.
NextIdx(i, n, err) == i + 1

\* An image operator instance as InstantiateImageOperator returns it: the
\* results of its steps ("": not called), what each step met, the guest
\* exports that ran, and the layer it was made for.
NewInstance(exps) ==
    [exports |-> exps, mod |-> "none", prepare |-> "", start |-> "", stop |-> "",
     met |-> [inst |-> "", init |-> "", start |-> "", stop |-> ""], ran |-> {},
     layer |-> 0]

\* Layers of one manifest.
MaxLayers == 3

\* What the first loop of init meets at a layer: a media type without
\* registered operator, an operator that returns no instance (with or
\* without an error), an operator that returns an instance, or an operator
\* that returns an instance together with an error.
LayerKinds == {"unregistered", "noinst", "inst", "insterr"}

\* What comes before the layers: the first step of InstantiateDataOperator
\* and init that fails, or none.
ImageOutcomes ==
    {"ok", "params", "imageName empty", "pull secret", "ensuring image",
     "getting manifest", "getting metadata", "reading metadata",
     "unmarshalling metadata"}

\* An init that goes on with an image whose metadata does not parse.
ImageError_IgnoresMetadata(outcome) ==
    IF outcome \in {"ok", "unmarshalling metadata"} THEN "nil" ELSE outcome

\* The error with which InstantiateDataOperator returns before the layers
\* are looked at ("nil": none).
ImageError(outcome) == IF outcome = "ok" THEN "nil" ELSE outcome

\* A first loop that takes a layer without instance into the list.
Dispatched_EveryRegistered(kind) == kind # "unregistered"

\* The first loop appends an instance for the layer: an operator is
\* registered for the media type and opInst is not nil; an error is logged
\* and not looked at again.
Dispatched(kind) == kind \in {"inst", "insterr"}

\* A handler that accepts an image without instances.
NoValidLayers_Accepted(insts) == FALSE

\* len(o.imageOperatorInstances) == 0 after the first loop.
NoValidLayers(insts) == Len(insts) = 0

\* The handler at the start of init: the image is there, no layer seen yet.
\* ret holds what init, Start and Stop returned to the gadget context;
\* layers, what the first loop met at each layer of the manifest; image,
\* what the steps before the layers met.
OciLayers ==
    [step |-> "layers", insts |-> <<>>, idx |-> 1, log |-> <<>>, extra |-> {},
     ret |-> [init |-> "", start |-> "", stop |-> ""], layers |-> <<>>,
     image |-> ""]

\* The handler when InstantiateDataOperator is called.
OciNew == [OciLayers EXCEPT !.step = "new"]

\* InstantiateDataOperator and init up to the layers: the parameters, the
\* image name, the pull secret, the image, the manifest, the metadata.
OciImage(outcome) ==
    /\ oci.step = "new"
    /\ oci' = IF ImageError(outcome) = "nil"
              THEN [oci EXCEPT !.step = "layers", !.image = outcome]
              ELSE [oci EXCEPT !.step = "failed", !.image = outcome,
                               !.ret.init = ImageError(outcome)]
    /\ UNCHANGED <<table, exports, stopResult, mod, phase, calls, bus, stack,
                   lastCall, hostPanic, trapped, guestIO>>

\* init, first loop: the next layer of the manifest; a layer with a wasm
\* program becomes an instance, another one is skipped.
OciAddLayer(kind, exps) ==
    /\ oci.step = "layers"
    /\ Len(oci.layers) < MaxLayers
    /\ Dispatched(kind) => Len(oci.insts) < MaxInstances
    /\ kind # "inst" => exps = {}
    /\ oci' = [oci EXCEPT
          !.layers = Append(@, kind),
          !.insts = IF Dispatched(kind)
                    THEN Append(@, [NewInstance(exps) EXCEPT
                                       !.layer = Len(oci.layers) + 1])
                    ELSE @]
    /\ UNCHANGED <<table, exports, stopResult, mod, phase, calls, bus, stack,
                   lastCall, hostPanic, trapped, guestIO>>

\* init, after the first loop: an image without instances is an error.
OciLayersDone ==
    /\ oci.step = "layers"
    /\ oci' = IF NoValidLayers(oci.insts)
              THEN [oci EXCEPT !.step = "failed", !.ret.init = "error"]
              ELSE [oci EXCEPT !.step = "prepare", !.idx = 1]
    /\ UNCHANGED <<table, exports, stopResult, mod, phase, calls, bus, stack,
                   lastCall, hostPanic, trapped, guestIO>>

\* Guest outcomes of a step: none when the guest is not called.
Outcomes(called) == IF called THEN GuestOutcomes ELSE {""}

\* init, second loop: Prepare of the next instance; an error is logged and
\* the loop goes on, else the instance's extra parameters are collected.
OciPrepare(inst, guest) ==
    /\ oci.step = "prepare"
    /\ oci.idx <= Len(oci.insts)
    /\ LET i == oci.idx
           x == oci.insts[i]
           r == PrepareResult(x.exports, inst, guest)
       IN  /\ guest \in Outcomes(inst = "ok" /\ "init" \in x.exports)
           /\ oci' = [oci EXCEPT
                 !.step = IF r.panic THEN "panic" ELSE @,
                 !.idx = NextIdx(i, Len(oci.insts), r.err),
                 !.log = Append(@, <<"Prepare", i>>),
                 !.extra = IF ~r.panic /\ r.err = "nil" THEN @ \cup {i} ELSE @,
                 !.insts[i] = [x EXCEPT !.prepare = IF r.panic THEN "panic" ELSE r.err,
                                        !.mod = r.mod,
                                        !.met.inst = inst,
                                        !.met.init = guest,
                                        !.ran = IF r.ran THEN @ \cup {"init"} ELSE @]]
    /\ UNCHANGED <<table, exports, stopResult, mod, phase, calls, bus, stack,
                   lastCall, hostPanic, trapped, guestIO>>

\* A second loop that is left after its first instance.
PrepareLoopDone_AfterFirst(idx, n) == idx > 1

\* The second loop of init has called Prepare on each of the n instances.
PrepareLoopDone(idx, n) == idx > n

\* init returns nil after the second loop; the gadget context goes on to
\* Start.
OciInitReturn ==
    /\ oci.step = "prepare"
    /\ PrepareLoopDone(oci.idx, Len(oci.insts))
    /\ oci' = [oci EXCEPT !.step = "start", !.idx = 1, !.ret.init = "nil"]
    /\ UNCHANGED <<table, exports, stopResult, mod, phase, calls, bus, stack,
                   lastCall, hostPanic, trapped, guestIO>>

\* Start, loop: Start of the next instance; an error is logged.
OciStart(guest) ==
    /\ oci.step = "start"
    /\ oci.idx <= Len(oci.insts)
    /\ LET i == oci.idx
           x == oci.insts[i]
           r == StartResult(x.exports, x.mod, guest)
       IN  /\ guest \in Outcomes(x.mod = "open" /\ "start" \in x.exports)
           /\ oci' = [oci EXCEPT
                 !.step = IF r.panic THEN "panic" ELSE @,
                 !.idx = NextIdx(i, Len(oci.insts), r.err),
                 !.log = Append(@, <<"Start", i>>),
                 !.insts[i] = [x EXCEPT !.start = IF r.panic THEN "panic" ELSE r.err,
                                        !.met.start = guest,
                                        !.ran = IF r.ran THEN @ \cup {"start"} ELSE @]]
    /\ UNCHANGED <<table, exports, stopResult, mod, phase, calls, bus, stack,
                   lastCall, hostPanic, trapped, guestIO>>

\* Start returns nil after the loop; the gadget runs and is stopped.
OciStartReturn ==
    /\ oci.step = "start"
    /\ oci.idx > Len(oci.insts)
    /\ oci' = [oci EXCEPT !.step = "stop", !.idx = 1, !.ret.start = "nil"]
    /\ UNCHANGED <<table, exports, stopResult, mod, phase, calls, bus, stack,
                   lastCall, hostPanic, trapped, guestIO>>

\* Stop, loop: Stop of the next instance; an error is logged.
OciStop(res) ==
    /\ oci.step = "stop"
    /\ oci.idx <= Len(oci.insts)
    /\ LET i == oci.idx
           x == oci.insts[i]
           r == WasmStopResult(x.exports, x.mod, res)
       IN  /\ res \in IF x.mod = "open" THEN StopResults(x.exports) ELSE {"none"}
           /\ oci' = [oci EXCEPT
                 !.step = IF r.panic THEN "panic" ELSE @,
                 !.idx = NextIdx(i, Len(oci.insts), r.err),
                 !.log = Append(@, <<"Stop", i>>),
                 !.insts[i] = [x EXCEPT !.stop = IF r.panic THEN "panic" ELSE r.err,
                                        !.mod = r.mod,
                                        !.met.stop = res,
                                        !.ran = IF r.ran THEN @ \cup {"stop"} ELSE @]]
    /\ UNCHANGED <<table, exports, stopResult, mod, phase, calls, bus, stack,
                   lastCall, hostPanic, trapped, guestIO>>

\* Stop returns nil after the loop.
OciStopReturn ==
    /\ oci.step = "stop"
    /\ oci.idx > Len(oci.insts)
    /\ oci' = [oci EXCEPT !.step = "stopped", !.ret.stop = "nil"]
    /\ UNCHANGED <<table, exports, stopResult, mod, phase, calls, bus, stack,
                   lastCall, hostPanic, trapped, guestIO>>

InitOci ==
    /\ handleMap = EmptyMap
    /\ handleMapNil = FALSE
    /\ handleCtr = 0
    /\ exports = {}
    /\ phase = "Loaded"
    /\ dataSources = [d \in {"dns"} |-> HostSource]
    /\ records = <<>>
    /\ stack = [t \in Threads |-> <<>>]
    /\ lastCall = NoCall
    /\ calls = 0
    /\ hostPanic = FALSE
    /\ trapped = FALSE
    /\ sinkSeen = {}
    /\ stopResult = ""
    /\ mod = "none"
    /\ guestIO = NoIO
    /\ oci = OciNew

NextOci ==
    \/ \E outcome \in ImageOutcomes : OciImage(outcome)
    \/ \E kind \in LayerKinds, exps \in LayerExports : OciAddLayer(kind, exps)
    \/ OciLayersDone
    \/ \E inst \in InstantiateOutcomes, guest \in GuestOutcomes \cup {""} :
          OciPrepare(inst, guest)
    \/ OciInitReturn
    \/ \E guest \in GuestOutcomes \cup {""} : OciStart(guest)
    \/ OciStartReturn
    \/ \E res \in {"ok", "error", "timeout", "none"} : OciStop(res)
    \/ OciStopReturn

\* The OCI handler with the image operator instances of one image.
SpecOci == InitOci /\ [][NextOci]_vars

\* C15: Prepare of a wasm instance succeeds only if the module instantiates
\* and init, when exported, returns 0 without trapping; Start succeeds only
\* if start, when exported, returns 0; without the export the step of an
\* instantiated module succeeds and runs no guest code; a non-zero return
\* value is reported as an error.
C15_PrepareStartResults ==
    \A i \in 1 .. Len(oci.insts) :
        LET x == oci.insts[i]
        IN  /\ x.prepare = "nil" =>
                 /\ x.met.inst = "ok"
                 /\ "init" \in x.exports => x.met.init = "ret0"
            /\ x.start = "nil" =>
                 ("start" \in x.exports => x.met.start = "ret0")
            /\ (x.met.inst = "ok" /\ "init" \notin x.exports) =>
                 (x.prepare = "nil" /\ "init" \notin x.ran)
            /\ (x.start # "" /\ x.mod # "none" /\ "start" \notin x.exports) =>
                 (x.start = "nil" /\ "start" \notin x.ran)
            /\ x.met.init = "ret1" => x.prepare = "init failed"
            /\ x.met.start = "ret1" => x.start = "start failed"

\* C15, witness: one instance whose init returned 1 and whose start then
\* returned 0, and one without exports that was prepared and started
\* without running guest code.
C15_Witness ==
    /\ Len(oci.insts) = 2
    /\ oci.insts[1].met.init = "ret1" /\ oci.insts[1].prepare = "init failed"
    /\ oci.insts[1].met.start = "ret0" /\ oci.insts[1].start = "nil"
    /\ oci.insts[2].exports = {} /\ oci.insts[2].ran = {}
    /\ oci.insts[2].prepare = "nil" /\ oci.insts[2].start = "nil"

\* The instances on which the handler has called op, in the order of the
\* calls.
CallsOf(op) ==
    LET IsOp(e) == e[1] = op
        c == SelectSeq(oci.log, IsOp)
    IN  [j \in 1 .. Len(c) |-> c[j][2]]

\* C18: the handler's Start calls Start on the instances in the order of
\* the layers and its Stop calls Stop in the same order; an instance whose
\* Start or Stop returns an error is followed by the next one, and when Stop
\* has returned it has been called on every instance, the prepared ones
\* among them.
C18_StartStopInOrder ==
    /\ \A j \in 1 .. Len(CallsOf("Start")) : CallsOf("Start")[j] = j
    /\ \A j \in 1 .. Len(CallsOf("Stop")) : CallsOf("Stop")[j] = j
    /\ oci.ret.start # "" => Len(CallsOf("Start")) = Len(oci.insts)
    /\ oci.ret.stop # "" => Len(CallsOf("Stop")) = Len(oci.insts)
    /\ \A i \in 1 .. Len(oci.insts) :
          (oci.step = "stopped" /\ oci.insts[i].prepare = "nil")
             => oci.insts[i].stop # ""

\* C18, witness: Stop has returned after the first instance failed both
\* its Start and its Stop and the second one, prepared, got both calls.
C18_Witness ==
    /\ oci.step = "stopped"
    /\ Len(oci.insts) = 2
    /\ oci.insts[1].start = "start failed"
    /\ oci.insts[1].stop \notin {"", "nil"}
    /\ oci.insts[2].prepare = "nil"
    /\ oci.insts[2].start = "nil"
    /\ oci.insts[2].stop = "nil"

\* C19: the handler calls neither Start nor Stop on an instance whose
\* Prepare failed, and collects no extra parameters from it.
C19_FailedPrepareOmitted ==
    \A i \in 1 .. Len(oci.insts) :
        oci.insts[i].prepare \notin {"", "nil"} =>
            /\ oci.insts[i].start = ""
            /\ oci.insts[i].stop = ""
            /\ i \notin oci.extra

\* C20: init does not return success when Prepare failed for every
\* instance, and Start does not return success when Start failed for every
\* instance.
C20_NoSurvivorIsFailure ==
    /\ oci.ret.init = "nil" =>
          \E i \in 1 .. Len(oci.insts) : oci.insts[i].prepare = "nil"
    /\ oci.ret.start = "nil" =>
          \E i \in 1 .. Len(oci.insts) : oci.insts[i].start = "nil"

\* The layers for which the first loop got an instance from a registered
\* operator.
DispatchedLayers ==
    {j \in 1 .. Len(oci.layers) : oci.layers[j] \in {"inst", "insterr"}}

\* C21: the list of instances holds exactly one instance for each layer
\* whose media type has a registered operator that produced an instance, in
\* the order of the manifest; a layer without registered operator yields no
\* instance and no error, and the layers after it are still processed.
C21_LayerDispatch ==
    /\ Len(oci.insts) = Cardinality(DispatchedLayers)
    /\ \A i \in 1 .. Len(oci.insts) : oci.insts[i].layer \in DispatchedLayers
    /\ \A i, k \in 1 .. Len(oci.insts) :
          i < k => oci.insts[i].layer < oci.insts[k].layer
    /\ Len(oci.insts) > 0 => oci.ret.init \in {"", "nil"}

\* C21, witness: a manifest whose first layer has no registered operator,
\* whose second layer has a wasm program and whose third one has none again;
\* init has returned nil with the one instance of layer 2.
C21_Witness ==
    /\ oci.layers = <<"unregistered", "inst", "unregistered">>
    /\ Len(oci.insts) = 1
    /\ oci.insts[1].layer = 2
    /\ oci.ret.init = "nil"

\* C22: when the first loop is over and no layer has produced an instance,
\* init fails and Prepare is called on nothing.
C22_NoValidLayersFails ==
    (oci.step \notin {"new", "layers"} /\ DispatchedLayers = {})
    => (/\ oci.step = "failed"
        /\ oci.ret.init \notin {"", "nil"}
        /\ oci.log = <<>>)

\* C22, witness: a manifest with a layer without registered operator and a
\* layer whose operator returned no instance has made init fail.
C22_Witness ==
    /\ oci.step = "failed"
    /\ oci.image = "ok"
    /\ "unregistered" \in {oci.layers[j] : j \in 1 .. Len(oci.layers)}
    /\ "noinst" \in {oci.layers[j] : j \in 1 .. Len(oci.layers)}
    /\ oci.ret.init = "error"

\* C23: when the image name is empty, or ensuring the image, fetching the
\* manifest, reading the config descriptor or parsing the metadata fails,
\* InstantiateDataOperator returns an error and no layer has been looked
\* at: no instance exists and nothing was prepared or started.
C23_ImageErrorsAbort ==
    oci.image \in {"imageName empty", "ensuring image", "getting manifest",
                   "getting metadata", "reading metadata",
                   "unmarshalling metadata"}
    => (/\ oci.step = "failed"
        /\ oci.ret.init = oci.image
        /\ oci.layers = <<>> /\ oci.insts = <<>> /\ oci.log = <<>>
        /\ oci.ret.start = "")

\* C23, witness: the metadata of the image is no YAML and
\* InstantiateDataOperator has failed on it.
C23_Witness ==
    /\ oci.image = "unmarshalling metadata"
    /\ oci.step = "failed"
    /\ oci.ret.init = "unmarshalling metadata"

\* ------------------------------------------- the trace_dns wasm subscriber

\* Labels of a DNS name and letters of a label.
MaxLabels == 2

MaxLabelLen == 2

\* The value the subscriber stores in uid, and the byte of '.'.
DnsUid == 1234

Dot == 46

\* Labels: non-empty strings of at most MaxLabelLen letters.
DnsLabels == {l \in StringsUpTo(MaxLabelLen) : Len(l) > 0}

\* Names: at most n labels.
RECURSIVE NamesUpTo(_)
NamesUpTo(n) ==
    IF n = 0 THEN {<<>>}
    ELSE LET shorter == NamesUpTo(n - 1)
         IN  shorter \cup {Append(ls, l) : ls \in {x \in shorter : Len(x) = n - 1},
                                           l \in DnsLabels}

\* The name as the kernel side stores it: each label preceded by its length
\* byte; "terminated" adds the zero byte of the root label.
RECURSIVE WireName(_)
WireName(ls) ==
    IF Len(ls) = 0 THEN <<>>
    ELSE <<Len(ls[1])>> \o ls[1] \o WireName(Tail(ls))

Payload(ls, form) == IF form = "terminated" THEN WireName(ls) \o <<0>> ELSE WireName(ls)

\* The labels joined by '.', without a dot at either end.
RECURSIVE Dotted(_)
Dotted(ls) ==
    IF Len(ls) = 0 THEN <<>>
    ELSE IF Len(ls) = 1 THEN ls[1]
    ELSE ls[1] \o <<Dot>> \o Dotted(Tail(ls))

\* The loop of the subscriber from index i on (i counts from 0): a length
\* byte 0 ends it; a label is appended with a '.' after it when at least one
\* byte follows the label, else the payload is invalid.
RECURSIVE ParseLabels(_, _, _)
ParseLabels(payload, i, str) ==
    IF i >= Len(payload) THEN [ok |-> TRUE, str |-> str]
    ELSE LET length == payload[i + 1]
         IN  IF length = 0 THEN [ok |-> TRUE, str |-> str]
             ELSE IF i + 1 + length < Len(payload)
             THEN ParseLabels(payload, i + length + 1,
                      str \o SubSeq(payload, i + 2, i + 1 + length) \o <<Dot>>)
             ELSE [ok |-> FALSE, str |-> str]

\* A record of "dns" in front of the subscriber: the labels the kernel side
\* saw, the content of the fields name and uid, what the subscriber did
\* (warn: it refused the payload; setErr: acc.Set refused the name it wrote)
\* and what the downstream subscriber read.
DnsRecord(ls, form) ==
    [step |-> "emitted", labels |-> ls, form |-> form,
     name |-> Payload(ls, form), uid |-> Zeros(4),
     warn |-> FALSE, setErr |-> FALSE, seenName |-> <<>>, seenUid |-> <<>>]

\* The subscriber of trace_dns: uid = 1234, then the name is read, parsed
\* and, unless the payload is invalid, written back; the guest does not
\* learn whether the write failed.
DnsCallback(setErr) ==
    /\ guestIO.step = "emitted"
    /\ LET u == SetByKind(Kind_Uint32,
                          SetArg(Kind_Uint32, Truncate(IntToUint64(DnsUid), 4)),
                          guestIO.uid)
           payload == StringPtrString(Region(MallocPtr, AccString(guestIO.name)),
                                      Pack(Len(AccString(guestIO.name)), MallocPtr)).str
           r == ParseLabels(payload, 0, <<>>)
           w == SetStringBuf(0, r.str, guestIO.name, setErr)
       IN  /\ setErr => r.ok
           /\ guestIO' = [guestIO EXCEPT !.step = "called",
                                         !.uid = u.data,
                                         !.name = IF r.ok THEN w.data ELSE @,
                                         !.warn = ~r.ok,
                                         !.setErr = setErr]
    /\ UNCHANGED <<table, exports, stopResult, mod, phase, calls, bus, stack,
                   lastCall, hostPanic, trapped, oci>>

\* The downstream subscriber reads the record after the guest's subscriber.
DnsDownstream ==
    /\ guestIO.step = "called"
    /\ guestIO' = [guestIO EXCEPT !.step = "read",
                                  !.seenName = AccString(guestIO.name),
                                  !.seenUid = guestIO.uid]
    /\ UNCHANGED <<table, exports, stopResult, mod, phase, calls, bus, stack,
                   lastCall, hostPanic, trapped, oci>>

InitDns ==
    /\ handleMap = EmptyMap
    /\ handleMapNil = FALSE
    /\ handleCtr = 0
    /\ exports = {"malloc", "init", "dsCallback"}
    /\ phase = "Running"
    /\ dataSources = [d \in {"dns"} |-> HostSource]
    /\ records = <<>>
    /\ stack = [t \in Threads |-> <<>>]
    /\ lastCall = NoCall
    /\ calls = 0
    /\ hostPanic = FALSE
    /\ trapped = FALSE
    /\ sinkSeen = {}
    /\ stopResult = ""
    /\ mod = "open"
    /\ oci = NoOci
    /\ \E ls \in NamesUpTo(MaxLabels), form \in {"bare", "terminated"} :
          guestIO = DnsRecord(ls, form)

NextDns == (\E setErr \in BOOLEAN : DnsCallback(setErr)) \/ DnsDownstream

\* One record of "dns" through the subscriber of trace_dns.
SpecDns == InitDns /\ [][NextDns]_vars

\* C24: after the subscriber of trace_dns has run on a record whose name
\* holds length-prefixed labels, the downstream subscriber reads the labels
\* joined by '.', without a dot at either end, and uid = 1234 (where the
\* accessor took the name the subscriber wrote).
C24_DnsNameRewritten ==
    (guestIO.step = "read" /\ ~guestIO.setErr) =>
        /\ guestIO.seenName = Dotted(guestIO.labels)
        /\ guestIO.seenUid = Truncate(IntToUint64(DnsUid), 4)

\* ------------------------------------------------- subscription priorities

\* Subscriptions one guest makes on one data source.
MaxSubs == 3

\* The priorities a guest can pass: every value of the unsigned word.
PrioWords == 0 .. HandleSpace - 1

NoSubs == [step |-> "subscribing", subs |-> <<>>, words |-> <<>>, order |-> <<>>]

\* DataSource.Subscribe of the guest API: dsSubscriptionCtr is incremented,
\* the callback is stored under it and the host is called with the
\* unsigned priority; the host decodes the word as a signed integer and
\* subscribes with the result.
GuestSubscribe(word) ==
    /\ guestIO.step = "subscribing"
    /\ Len(guestIO.words) < MaxSubs
    /\ LET cbID == Len(guestIO.words) + 1
       IN  guestIO' = [guestIO EXCEPT
               !.words = Append(@, word),
               !.subs = InsertSub(@, GuestSub(DecodeI32(word), cbID))]
    /\ UNCHANGED <<table, exports, stopResult, mod, phase, calls, bus, stack,
                   lastCall, hostPanic, trapped, oci>>

\* One emission: the subscribers are invoked in the order of the list.
PrioEmit ==
    /\ guestIO.step = "subscribing"
    /\ Len(guestIO.subs) > 0
    /\ guestIO' = [guestIO EXCEPT
           !.step = "emitted",
           !.order = [k \in 1 .. Len(guestIO.subs) |-> guestIO.subs[k].cbID]]
    /\ UNCHANGED <<table, exports, stopResult, mod, phase, calls, bus, stack,
                   lastCall, hostPanic, trapped, oci>>

InitPrio ==
    /\ handleMap = EmptyMap
    /\ handleMapNil = FALSE
    /\ handleCtr = 0
    /\ exports = {"malloc", "init", "dsCallback"}
    /\ phase = "Running"
    /\ dataSources = [d \in {"dns"} |-> HostSource]
    /\ records = <<>>
    /\ stack = [t \in Threads |-> <<>>]
    /\ lastCall = NoCall
    /\ calls = 0
    /\ hostPanic = FALSE
    /\ trapped = FALSE
    /\ sinkSeen = {}
    /\ stopResult = ""
    /\ mod = "open"
    /\ oci = NoOci
    /\ guestIO = NoSubs

NextPrio == (\E word \in PrioWords : GuestSubscribe(word)) \/ PrioEmit

\* The subscriptions of one guest on one data source, then one emission.
SpecPrio == InitPrio /\ [][NextPrio]_vars

\* The place of callback cbID in the order of invocation.
InvokedAt(cbID) == CHOOSE k \in 1 .. Len(guestIO.order) : guestIO.order[k] = cbID

\* C25: in every emission, a subscriber registered with the unsigned
\* priority p is invoked before every subscriber registered with a
\* priority q > p.
C25_LowestWordFirst ==
    guestIO.step = "emitted" =>
        \A a, b \in 1 .. Len(guestIO.words) :
            guestIO.words[a] < guestIO.words[b] => InvokedAt(a) < InvokedAt(b)

\* ------------------------------------------------------- gadget metadata

\* Entries of one kind (tracers, snapshotters, toppers, profilers) in a
\* metadata file.
MaxImpl == 2

\* One of the four maps of the metadata: its number of entries and whether
\* every entry passes the checks of its kind (map and struct found, types
\* as expected).
ImplMaps == {e \in [n : 0 .. MaxImpl, ok : BOOLEAN] : e.n = 0 => e.ok}

\* The checks that do not look at the four maps: eBPF parameters, structs
\* and gadget parameters; the set holds those that fail.
OtherChecks == {"ebpfParams", "structs", "gadgetParams"}

GadgetMetadata ==
    [Name : {"", "gadget"}, Tracers : ImplMaps, Snapshotters : ImplMaps,
     Toppers : ImplMaps, Profilers : ImplMaps, failing : SUBSET OtherChecks]

Present(e) == IF e.n > 0 THEN 1 ELSE 0

countDistImp_ThreeKinds(m) ==
    Present(m.Tracers) + Present(m.Snapshotters) + Present(m.Toppers)

countDistImp(m) ==
    Present(m.Tracers) + Present(m.Snapshotters) + Present(m.Toppers)
        + Present(m.Profilers)

\* validateTracers, validateToppers, validateSnapshotters and
\* validateProfilers: more than one entry, or an entry that fails its
\* checks, is an error.
validateImpl(e) == e.n > 1 \/ ~e.ok

\* Validate: the errors appended to the result; nil is the empty set.
Validate(m) ==
    (IF m.Name = "" THEN {"name"} ELSE {})
    \cup (IF countDistImp(m) > 1 THEN {"distinct"} ELSE {})
    \cup (IF validateImpl(m.Tracers) THEN {"tracers"} ELSE {})
    \cup (IF validateImpl(m.Toppers) THEN {"toppers"} ELSE {})
    \cup (IF validateImpl(m.Snapshotters) THEN {"snapshotters"} ELSE {})
    \cup (IF validateImpl(m.Profilers) THEN {"profilers"} ELSE {})
    \cup m.failing

MetaValidate ==
    /\ guestIO.step = "metadata"
    /\ guestIO' = [guestIO EXCEPT !.step = "validated", !.result = Validate(guestIO.m)]
    /\ UNCHANGED <<table, exports, stopResult, mod, phase, calls, bus, stack,
                   lastCall, hostPanic, trapped, oci>>

InitMeta ==
    /\ handleMap = EmptyMap
    /\ handleMapNil = FALSE
    /\ handleCtr = 0
    /\ exports = {}
    /\ phase = "Loaded"
    /\ dataSources = [d \in {"dns"} |-> HostSource]
    /\ records = <<>>
    /\ stack = [t \in Threads |-> <<>>]
    /\ lastCall = NoCall
    /\ calls = 0
    /\ hostPanic = FALSE
    /\ trapped = FALSE
    /\ sinkSeen = {}
    /\ stopResult = ""
    /\ mod = "none"
    /\ oci = NoOci
    /\ \E m \in GadgetMetadata : guestIO = [step |-> "metadata", m |-> m, result |-> {}]

NextMeta == MetaValidate

\* Validate on every metadata of the bounds.
SpecMeta == InitMeta /\ [][NextMeta]_vars

\* C26: Validate returns an error whenever more than one of tracers,
\* snapshotters, toppers and profilers is non-empty, whatever the rest of
\* the metadata is.
C26_OneImplementation ==
    guestIO.step = "validated" =>
        (Cardinality({k \in {"Tracers", "Snapshotters", "Toppers", "Profilers"} :
                         guestIO.m[k].n > 0}) > 1
            => guestIO.result # {})

\* A tracer and a profiler, one valid entry each, in a metadata with no
\* other fault: the only error is that of the count.
C26_Witness ==
    /\ guestIO.step = "validated"
    /\ guestIO.m.Tracers = [n |-> 1, ok |-> TRUE]
    /\ guestIO.m.Profilers = [n |-> 1, ok |-> TRUE]
    /\ guestIO.result = {"distinct"}

\* ------------------------------------------------- the host file system

ParamGlobalAllowHostFS == "wasm-global-allow-host-fs"

ParamAllowHostFS == "wasm-allow-host-fs"

\* Values a caller gives to a parameter.
ParamStrings == {"true", "false", "", "True", "1"}

\* api.ParamValues: a map from keys to strings; a key may be absent.
ParamValues ==
    UNION {[K -> ParamStrings] : K \in SUBSET {ParamAllowHostFS, ParamGlobalAllowHostFS}}

\* paramValues[key]: the empty string for an absent key.
ParamValue(paramValues, key) ==
    IF key \in DOMAIN paramValues THEN paramValues[key] ELSE ""

allowHostFS_UnlessFalse(paramValues) ==
    ParamValue(paramValues, ParamAllowHostFS) # "false"

\* The field allowHostFS that InstantiateImageOperator sets.
allowHostFS(paramValues) ==
    ParamValue(paramValues, ParamAllowHostFS) = "true"

\* The file system of the module configuration that init builds: the root
\* of the host, or none.
ConfigFS(allow) == IF allow THEN "/" ELSE "none"

InstantiateImageOperator ==
    /\ guestIO.step = "params"
    /\ guestIO' = [guestIO EXCEPT !.step = "instantiated",
                                  !.allowHostFS = allowHostFS(guestIO.paramValues)]
    /\ UNCHANGED <<table, exports, stopResult, mod, phase, calls, bus, stack,
                   lastCall, hostPanic, trapped, oci>>

InitConfig ==
    /\ guestIO.step = "instantiated"
    /\ guestIO' = [guestIO EXCEPT !.step = "configured",
                                  !.fs = ConfigFS(guestIO.allowHostFS)]
    /\ UNCHANGED <<table, exports, stopResult, mod, phase, calls, bus, stack,
                   lastCall, hostPanic, trapped, oci>>

InitFS ==
    /\ handleMap = EmptyMap
    /\ handleMapNil = FALSE
    /\ handleCtr = 0
    /\ exports = {}
    /\ phase = "Loaded"
    /\ dataSources = [d \in {"dns"} |-> HostSource]
    /\ records = <<>>
    /\ stack = [t \in Threads |-> <<>>]
    /\ lastCall = NoCall
    /\ calls = 0
    /\ hostPanic = FALSE
    /\ trapped = FALSE
    /\ sinkSeen = {}
    /\ stopResult = ""
    /\ mod = "none"
    /\ oci = NoOci
    /\ \E pv \in ParamValues :
          guestIO = [step |-> "params", paramValues |-> pv,
                     allowHostFS |-> FALSE, fs |-> "none"]

NextFS == InstantiateImageOperator \/ InitConfig

\* An instance from its parameters to its module configuration.
SpecFS == InitFS /\ [][NextFS]_vars

\* C27: the module configuration has the host file system exactly when the
\* instance parameter wasm-allow-host-fs is "true"; for an absent key and
\* for every other value there is none.
C27_HostFSOnlyWhenTrue ==
    guestIO.step = "configured" =>
        (guestIO.fs # "none"
            <=> (/\ ParamAllowHostFS \in DOMAIN guestIO.paramValues
                 /\ guestIO.paramValues[ParamAllowHostFS] = "true"))

\* An instance configured without the parameter: no file system.
C27_Witness ==
    /\ guestIO.step = "configured"
    /\ ParamAllowHostFS \notin DOMAIN guestIO.paramValues
    /\ guestIO.fs = "none"

\* ------------------------------------------------------ re-entrant emission

\* The deepest nesting of callbacks the model follows.
MaxDepth == 10

\* Emissions one run of the callback makes.
MaxEmits == 2

\* The depth at which the spec makes a re-entrant emission fail.
ReentryCap == 8

\* frames[k] counts the emissions the k-th nested run of dsCallback has
\* made on the data source it is subscribed to.
NoFrames == [step |-> "nesting", frames |-> <<>>]

\* Depth of callbacks of the instance.
Depth == Len(guestIO.frames)

\* The subscriber closure: cb.Call, with no look at the callbacks already
\* running.
EnterCallback(frames) == Append(frames, 0)

\* A producer on the host emits a record: the closure calls dsCallback.
HostEmit ==
    /\ guestIO.step = "nesting"
    /\ Depth = 0
    /\ guestIO' = [guestIO EXCEPT !.frames = EnterCallback(@)]
    /\ UNCHANGED <<table, exports, stopResult, mod, phase, calls, bus, stack,
                   lastCall, hostPanic, trapped, oci>>

\* The running callback calls dataSourceEmitAndRelease with handles of its
\* own data source and of a record: both handles are found, so
\* ds.EmitAndRelease runs the subscribers, the closure among them.
GuestEmit ==
    /\ guestIO.step = "nesting"
    /\ Depth > 0 /\ Depth < MaxDepth
    /\ guestIO.frames[Depth] < MaxEmits
    /\ guestIO' = [guestIO EXCEPT
           !.frames = EnterCallback([@ EXCEPT ![Depth] = @ + 1])]
    /\ UNCHANGED <<table, exports, stopResult, mod, phase, calls, bus, stack,
                   lastCall, hostPanic, trapped, oci>>

\* The innermost callback returns; dataSourceEmitAndRelease of the caller
\* returns 0.
GuestReturn ==
    /\ guestIO.step = "nesting"
    /\ Depth > 0
    /\ guestIO' = [guestIO EXCEPT !.frames = SubSeq(@, 1, Depth - 1)]
    /\ UNCHANGED <<table, exports, stopResult, mod, phase, calls, bus, stack,
                   lastCall, hostPanic, trapped, oci>>

InitReentry ==
    /\ handleMap = EmptyMap
    /\ handleMapNil = FALSE
    /\ handleCtr = 0
    /\ exports = {"malloc", "init", "dsCallback"}
    /\ phase = "Running"
    /\ dataSources = [d \in {"dns"} |-> HostSource]
    /\ records = <<>>
    /\ stack = [t \in Threads |-> <<>>]
    /\ lastCall = NoCall
    /\ calls = 0
    /\ hostPanic = FALSE
    /\ trapped = FALSE
    /\ sinkSeen = {}
    /\ stopResult = ""
    /\ mod = "open"
    /\ oci = NoOci
    /\ guestIO = NoFrames

NextReentry == HostEmit \/ GuestEmit \/ GuestReturn

\* A guest whose callback emits on the data source it is subscribed to.
SpecReentry == InitReentry /\ [][NextReentry]_vars

ReservedKinds ==
    {Kind_Invalid, Kind_Bool, Kind_String, Kind_CString}
        \cup {k \in KindNumbers : k > Kind_CString}

\* C29: fieldAccessorGet with one of these kinds returns 0 and
\* fieldAccessorSet with one of them leaves the record as it was; both log
\* the kind as unknown.
C29_ReservedKindsRejected ==
    /\ (guestIO.step = "hostget" /\ guestIO.arg \in ReservedKinds)
          => (guestIO.got = Zeros(SlotBytes) /\ guestIO.warn)
    /\ (guestIO.step = "hostset" /\ guestIO.arg \in ReservedKinds)
          => (guestIO.data = guestIO.before /\ guestIO.warn)

\* Set with kind Bool and a value other than the content of the field.
C29_Witness ==
    /\ guestIO.step = "hostset"
    /\ guestIO.arg = Kind_Bool
    /\ guestIO.value # guestIO.before
    /\ guestIO.data = guestIO.before

\* ------------------------------------------------------- the frozen schema

\* The guest's init after newDataSource("open") has returned handle 1: the
\* data source has no field, no subscriber and no record yet. The calls that
\* follow are counted from 0.
InitFreeze ==
    /\ handleMap = (1 :> DSObj("open"))
    /\ handleMapNil = FALSE
    /\ handleCtr = 1
    /\ exports = {"malloc", "init", "start", "stop", "dsCallback"}
    /\ phase = "Preparing"
    /\ dataSources = ("open" :> NewSource) @@ [d \in {"dns"} |-> HostSource]
    /\ records = <<>>
    /\ stack = [t \in Threads |-> IF t = LifeThread THEN <<InitFrame>> ELSE <<>>]
    /\ lastCall = NoCall
    /\ calls = 0
    /\ hostPanic = FALSE
    /\ trapped = FALSE
    /\ sinkSeen = {}
    /\ stopResult = ""
    /\ mod = "open"
    /\ guestIO = NoIO
    /\ oci = NoOci

NextFreeze ==
    \/ \E t \in Threads, h \in HandleIds : dataSourceAddField(t, h)
    \/ \E t \in Threads : AddField(t)
    \/ \E t \in Threads, h \in HandleIds : dataSourceNewData(t, h)
    \/ \E t \in Threads : NewData(t)
    \/ \E t \in Threads, h \in HandleIds, dh \in HandleIds :
          dataSourceEmitAndRelease(t, h, dh)
    \/ \E t \in Threads : LookupData(t)
    \/ \E t \in Threads : EmitAndRelease(t)
    \/ \E t \in Threads : EmitEnd(t)
    \/ \E t \in Threads : HostAddHandle(t)

\* A guest that adds fields to its own data source and emits on it.
SpecFreeze == InitFreeze /\ [][NextFreeze]_vars

\* C30: a call of dataSourceAddField that holds a data source that has been
\* emitted to and reads a readable name returns 0, adds no handle and leaves
\* the fields of the data source as they are.
C30_FrozenSchemaRefusesField ==
    [][ \A t \in Threads :
          ( /\ AddField(t)
            /\ dataSources[Top(t).obj.ds].frozen
            /\ lastCall'.fail # "string" )
          => ( /\ lastCall'.fn = "dataSourceAddField"
               /\ lastCall'.ret = 0
               /\ InGuest(t)'
               /\ handleMap' = handleMap
               /\ dataSources' = dataSources ) ]_vars

\* The guest emitted a record on "open", which has no field, and its
\* dataSourceAddField("name") was refused.
C30_Witness ==
    /\ lastCall.fn = "dataSourceAddField"
    /\ lastCall.fail = "addfield"
    /\ dataSources["open"].frozen
    /\ dataSources["open"].fields = {}
    /\ ~IsA(2, "ds")

\* ----------------------------------------------- imports of the guest API

\* Imports one guest module uses.
MaxImports == 2

\* A function type: the value types of its parameters and of its results.
Sig(params, results) == [params |-> params, results |-> results]

\* The functions the guest API imports from module "env", as declared in
\* functions.go (stringPtr is a uint64, the handle types are uint32).
GuestImportsV1 ==
    [xlog                     |-> Sig(<<"i64">>, <<>>),
     newDataSource            |-> Sig(<<"i64">>, <<"i32">>),
     getDataSource            |-> Sig(<<"i64">>, <<"i32">>),
     dataSourceSubscribe      |-> Sig(<<"i32", "i32", "i64">>, <<>>),
     dataSourceGetField       |-> Sig(<<"i32", "i64">>, <<"i32">>),
     dataSourceAddField       |-> Sig(<<"i32", "i64">>, <<"i32">>),
     getField                 |-> Sig(<<"i32">>, <<"i32">>),
     dataSourceNewData        |-> Sig(<<"i32">>, <<"i32">>),
     dataSourceEmitAndRelease |-> Sig(<<"i32", "i32">>, <<>>),
     dataSourceRelease        |-> Sig(<<"i32", "i32">>, <<>>),
     fieldAccessorGetString   |-> Sig(<<"i32", "i32">>, <<"i64">>),
     fieldAccessorSetString   |-> Sig(<<"i32", "i32", "i64">>, <<>>)]

\* The later version of the declarations: xlog has a level.
GuestImportsV2 == [GuestImportsV1 EXCEPT !.xlog = Sig(<<"i32", "i64">>, <<>>)]

GuestImports(version) == IF version = 1 THEN GuestImportsV1 ELSE GuestImportsV2

\* The functions the host exports in module "env": xlog, those of
\* addDataSourceFuncs and addFieldFuncs, mfree and freeHost.
HostExports ==
    [xlog                     |-> Sig(<<"i64">>, <<>>),
     newDataSource            |-> Sig(<<"i64">>, <<"i32">>),
     getDataSource            |-> Sig(<<"i64">>, <<"i32">>),
     dataSourceSubscribe      |-> Sig(<<"i32", "i32", "i64">>, <<>>),
     dataSourceGetField       |-> Sig(<<"i32", "i64">>, <<"i32">>),
     dataSourceAddField       |-> Sig(<<"i32", "i64">>, <<"i32">>),
     dataSourceNewData        |-> Sig(<<"i32">>, <<"i32">>),
     dataSourceEmitAndRelease |-> Sig(<<"i32", "i32">>, <<"i32">>),
     dataSourceRelease        |-> Sig(<<"i32", "i32">>, <<>>),
     fieldAccessorGetString   |-> Sig(<<"i32", "i32">>, <<"i64">>),
     fieldAccessorSetString   |-> Sig(<<"i32", "i32", "i64">>, <<>>),
     fieldAccessorGet         |-> Sig(<<"i32", "i32", "i32">>, <<"i64">>),
     fieldAccessorSet         |-> Sig(<<"i32", "i32", "i32", "i64">>, <<>>),
     mfree                    |-> Sig(<<"i32">>, <<>>),
     freeHost                 |-> Sig(<<"i32">>, <<>>)]

\* The imports of a guest that the host module does not satisfy: no export
\* of that name, or one of another type.
Unresolved(imports, version) ==
    {n \in imports : \/ n \notin DOMAIN HostExports
                     \/ HostExports[n] # GuestImports(version)[n]}

\* Instantiation of a guest module that uses the given imports: it fails
\* when an import is not satisfied.
LinkGuest ==
    /\ guestIO.step = "compiled"
    /\ guestIO' = [guestIO EXCEPT
           !.step = "linked",
           !.unresolved = Unresolved(guestIO.imports, guestIO.version)]
    /\ UNCHANGED <<table, exports, stopResult, mod, phase, calls, bus, stack,
                   lastCall, hostPanic, trapped, oci>>

InitLink ==
    /\ handleMap = EmptyMap
    /\ handleMapNil = FALSE
    /\ handleCtr = 0
    /\ exports = {}
    /\ phase = "Loaded"
    /\ dataSources = [d \in {"dns"} |-> HostSource]
    /\ records = <<>>
    /\ stack = [t \in Threads |-> <<>>]
    /\ lastCall = NoCall
    /\ calls = 0
    /\ hostPanic = FALSE
    /\ trapped = FALSE
    /\ sinkSeen = {}
    /\ stopResult = ""
    /\ mod = "none"
    /\ oci = NoOci
    /\ \E version \in {1, 2} :
       \E imports \in {S \in SUBSET DOMAIN GuestImportsV1 : Cardinality(S) <= MaxImports} :
          guestIO = [step |-> "compiled", version |-> version,
                     imports |-> imports, unresolved |-> {}]

NextLink == LinkGuest

\* Guest modules built on the guest API, instantiated against module "env".
SpecLink == InitLink /\ [][NextLink]_vars

\* C31: every function a guest imports from env through the guest API is
\* exported by the host under that name with as many parameters and as many
\* results.
C31_ImportsAligned ==
    guestIO.step = "linked" =>
        \A n \in guestIO.imports :
            /\ n \in DOMAIN HostExports
            /\ Len(HostExports[n].params) = Len(GuestImports(guestIO.version)[n].params)
            /\ Len(HostExports[n].results) = Len(GuestImports(guestIO.version)[n].results)

\* ------------------------------------------------------ emission after Stop

\* C32: after Stop, an emission on a data source the guest subscribed to and
\* every later host call of the instance complete without a failure of the
\* host and leave no live handle: nothing is written into the cleared
\* handle table.
C32_QuietAfterStop ==
    phase = "Stopped" => (~hostPanic /\ DOMAIN handleMap = {})

\* --------------------------------------------- the order of the OCI handler

\* C33: no Prepare is called while the first loop still instantiates; when
\* init has returned, Prepare has returned on every instance; a Start comes
\* after the Prepare of every instance, and a Stop of an instance after the
\* Prepare of that instance.
C33_LifecycleOrder ==
    /\ oci.step \in {"new", "layers"} => oci.log = <<>>
    /\ oci.ret.init = "nil" =>
          \A i \in 1 .. Len(oci.insts) : oci.insts[i].prepare # ""
    /\ \A k \in 1 .. Len(oci.log) :
          oci.log[k][1] = "Start" =>
              \A i \in 1 .. Len(oci.insts) :
                  \E j \in 1 .. k - 1 : oci.log[j] = <<"Prepare", i>>
    /\ \A k \in 1 .. Len(oci.log) :
          oci.log[k][1] = "Stop" =>
              \E j \in 1 .. k - 1 : oci.log[j] = <<"Prepare", oci.log[k][2]>>

\* C33, witness: two instances, each prepared, then each started, then each
\* stopped.
C33_Witness ==
    /\ oci.step = "stopped"
    /\ oci.log = << <<"Prepare", 1>>, <<"Prepare", 2>>, <<"Start", 1>>,
                    <<"Start", 2>>, <<"Stop", 1>>, <<"Stop", 2>> >>

\* C34: a layer whose operator reported an error from
\* InstantiateImageOperator has no instance in the list, and no Prepare,
\* Start or Stop is called for it.
C34_FailedInstantiationOmitted ==
    \A i \in 1 .. Len(oci.insts) : oci.layers[oci.insts[i].layer] # "insterr"

\* ------------------------------------------------- the execsnoop trace

\* Operations on one trace.
MaxOps == 7

\* A trace as the factory creates it, with the status of its resource:
\* started and tracer are the fields of Trace; live counts the tracers that
\* were created and not stopped; State and OperationError are fields of
\* trace.Status; n counts the operations, op is the last one, created the
\* number of tracers it created and met what its calls of NewTracer met
\* ("": not called); panic tells that an operation on it panicked; step is
\* "deleted" once the factory has deleted the trace.
NewTrace ==
    [started |-> FALSE, tracer |-> "nil", live |-> 0,
     State |-> "", OperationError |-> "",
     n |-> 0, op |-> "", created |-> 0, met |-> [core |-> "", std |-> ""],
     panic |-> FALSE, step |-> "trace"]

\* What a call of NewTracer met.
Met(ok) == IF ok THEN "ok" ELSE "failed"

\* What t.tracer holds after a NewTracer that failed: nil, or a nil pointer
\* in the interface.
FailedTracers == {"nil", "nilptr"}

\* gadgets.CleanupTraceStatus: the status fields of the last operation are
\* cleared.
CleanupTraceStatus(x) == [x EXCEPT !.State = "", !.OperationError = ""]

CreateTracer_CoreOnly(coreOk, stdOk, failed) ==
    IF coreOk THEN [tracer |-> "core", err |-> FALSE]
    ELSE [tracer |-> failed, err |-> TRUE]

\* The two creations of Start: the CO-RE tracer, and when that fails the
\* standard one.
CreateTracer(coreOk, stdOk, failed) ==
    IF coreOk THEN [tracer |-> "core", err |-> FALSE]
    ELSE IF stdOk THEN [tracer |-> "standard", err |-> FALSE]
    ELSE [tracer |-> failed, err |-> TRUE]

StartTrace_NoEarlyReturn(x, coreOk, stdOk, failed) ==
    LET c == CreateTracer(coreOk, stdOk, failed)
    IN  IF c.err
        THEN [x EXCEPT !.tracer = c.tracer, !.created = 0,
                       !.OperationError = "failed to create tracer"]
        ELSE [CleanupTraceStatus(x) EXCEPT
                 !.tracer = c.tracer, !.started = TRUE, !.live = @ + 1,
                 !.created = 1, !.State = "Started"]

\* Trace.Start
StartTrace(x, coreOk, stdOk, failed) ==
    IF x.started
    THEN [CleanupTraceStatus(x) EXCEPT !.State = "Started", !.created = 0]
    ELSE LET c == CreateTracer(coreOk, stdOk, failed)
         IN  IF c.err
             THEN [x EXCEPT !.tracer = c.tracer, !.created = 0,
                            !.OperationError = "failed to create tracer"]
             ELSE [CleanupTraceStatus(x) EXCEPT
                      !.tracer = c.tracer, !.started = TRUE, !.live = @ + 1,
                      !.created = 1, !.State = "Started"]

StopTrace_KeepsTracer(x) ==
    IF ~x.started
    THEN [x EXCEPT !.OperationError = "Not started", !.created = 0]
    ELSE [x EXCEPT !.live = @ - 1, !.started = FALSE,
                   !.OperationError = "", !.State = "Stopped", !.created = 0]

\* Trace.Stop
StopTrace(x) ==
    IF ~x.started
    THEN [x EXCEPT !.OperationError = "Not started", !.created = 0]
    ELSE [x EXCEPT !.live = @ - 1, !.tracer = "nil", !.started = FALSE,
                   !.OperationError = "", !.State = "Stopped", !.created = 0]

\* deleteTrace: a tracer held by the trace is stopped; started and the
\* tracer field stay as they are. Stop() on the nil pointer a failed
\* NewTracer may have left in the interface panics or does nothing,
\* depending on the tracer's Stop.
DeleteTrace(x, panics) ==
    IF x.tracer = "nil" THEN x
    ELSE IF x.tracer = "nilptr" THEN [x EXCEPT !.panic = panics]
    ELSE [x EXCEPT !.live = @ - 1]

\* The operation "start" of the factory on the trace.
TraceStart(coreOk, stdOk, failed) ==
    /\ guestIO.step = "trace"
    /\ guestIO.n < MaxOps
    /\ guestIO.started => (coreOk /\ stdOk /\ failed = "nil")
    /\ coreOk => stdOk
    /\ (coreOk \/ stdOk) => failed = "nil"
    /\ guestIO' = [StartTrace(guestIO, coreOk, stdOk, failed) EXCEPT
                      !.n = guestIO.n + 1, !.op = "start",
                      !.met = IF guestIO.started THEN [core |-> "", std |-> ""]
                              ELSE [core |-> Met(coreOk),
                                    std |-> IF coreOk THEN "" ELSE Met(stdOk)]]
    /\ UNCHANGED <<table, exports, stopResult, mod, phase, calls, bus, stack,
                   lastCall, hostPanic, trapped, oci>>

\* The operation "stop" of the factory on the trace.
TraceStop ==
    /\ guestIO.step = "trace"
    /\ guestIO.n < MaxOps
    /\ guestIO' = [StopTrace(guestIO) EXCEPT !.n = guestIO.n + 1, !.op = "stop",
                                             !.met = [core |-> "", std |-> ""]]
    /\ UNCHANGED <<table, exports, stopResult, mod, phase, calls, bus, stack,
                   lastCall, hostPanic, trapped, oci>>

\* The factory deletes the trace.
TraceDelete(panics) ==
    /\ guestIO.step = "trace"
    /\ panics => guestIO.tracer = "nilptr"
    /\ guestIO' = [DeleteTrace(guestIO, panics) EXCEPT !.step = "deleted",
                                                       !.op = "delete"]
    /\ UNCHANGED <<table, exports, stopResult, mod, phase, calls, bus, stack,
                   lastCall, hostPanic, trapped, oci>>

\* The status the Trace resource arrives with: the resource outlives the
\* Trace object, which LookupOrCreate makes at the first operation.
TraceStates == {"", "Started", "Stopped"}
TraceErrors == {"", "Not started"}

InitTrace ==
    /\ handleMap = EmptyMap
    /\ handleMapNil = FALSE
    /\ handleCtr = 0
    /\ exports = {}
    /\ phase = "Loaded"
    /\ dataSources = [d \in {"dns"} |-> HostSource]
    /\ records = <<>>
    /\ stack = [t \in Threads |-> <<>>]
    /\ lastCall = NoCall
    /\ calls = 0
    /\ hostPanic = FALSE
    /\ trapped = FALSE
    /\ sinkSeen = {}
    /\ stopResult = ""
    /\ mod = "none"
    /\ oci = NoOci
    /\ \E state \in TraceStates, err \in TraceErrors :
          guestIO = [NewTrace EXCEPT !.State = state, !.OperationError = err]

NextTrace ==
    \/ \E coreOk, stdOk \in BOOLEAN, failed \in FailedTracers :
          TraceStart(coreOk, stdOk, failed)
    \/ TraceStop
    \/ \E panics \in BOOLEAN : TraceDelete(panics)

\* Sequences of start and stop operations on one execsnoop trace, which the
\* factory deletes at some point.
SpecTrace == InitTrace /\ [][NextTrace]_vars

\* C35 as claimed: started is true exactly when the trace holds a live
\* tracer; after a Stop the tracer is nil and started is false; at most one
\* tracer is live.
C35_TracerNilAfterStop ==
    guestIO.step = "trace" =>
        /\ guestIO.started <=> guestIO.tracer \in {"core", "standard"}
        /\ guestIO.started <=> guestIO.live = 1
        /\ guestIO.live <= 1
        /\ guestIO.op = "stop" => (~guestIO.started /\ guestIO.tracer = "nil")

\* C35: started is true exactly when the trace holds a live tracer; after a
\* Stop started is false and no tracer is live; the tracer field is nil
\* after a Stop that stopped a tracer, and after a Stop of a trace that is
\* not started it holds no tracer but what the last Start left in it (nil,
\* or the result of a creation that failed); at most one tracer is live.
C35_StartedIffTracer ==
    guestIO.step = "trace" =>
        /\ guestIO.started <=> guestIO.tracer \in {"core", "standard"}
        /\ guestIO.started <=> guestIO.live = 1
        /\ guestIO.live <= 1
        /\ guestIO.op = "stop" => (~guestIO.started /\ guestIO.live = 0)
        /\ (guestIO.op = "stop" /\ guestIO.OperationError = "")
              => guestIO.tracer = "nil"
        /\ (guestIO.op = "stop" /\ guestIO.OperationError = "Not started")
              => guestIO.tracer \in FailedTracers

\* C35, witness: a Start whose two creations failed left the result of the
\* failed creation in the tracer field, and the Stop after it found the
\* trace not started.
C35_Witness ==
    /\ guestIO.step = "trace"
    /\ guestIO.n >= 2
    /\ guestIO.op = "stop"
    /\ guestIO.OperationError = "Not started"
    /\ guestIO.tracer = "nilptr"
    /\ ~guestIO.started
    /\ guestIO.live = 0

\* C36: Start on a started trace creates no tracer, keeps the one it has and
\* sets State to "Started"; Stop on a trace that is not started sets
\* OperationError to "Not started" and changes neither State nor the tracer.
C36_StartIdempotent ==
    [][ /\ (guestIO.started /\ guestIO'.op = "start" /\ guestIO'.n = guestIO.n + 1)
           => ( /\ guestIO'.created = 0
                /\ guestIO'.live = guestIO.live
                /\ guestIO'.tracer = guestIO.tracer
                /\ guestIO'.started
                /\ guestIO'.OperationError = guestIO.OperationError
                /\ guestIO'.State = "Started" )
        /\ (~guestIO.started /\ guestIO'.op = "stop" /\ guestIO'.n = guestIO.n + 1)
           => ( /\ guestIO'.OperationError = "Not started"
                /\ guestIO'.State = guestIO.State
                /\ guestIO'.tracer = guestIO.tracer
                /\ guestIO'.live = guestIO.live
                /\ ~guestIO'.started ) ]_vars

\* C36, witness: a second Start on a trace started with the standard tracer.
C36_Witness ==
    /\ guestIO.step = "trace"
    /\ guestIO.n = 2
    /\ guestIO.op = "start"
    /\ guestIO.created = 0
    /\ guestIO.tracer = "standard"
    /\ guestIO.State = "Started"

\* C37: Start on a trace that is not started reports an OperationError only
\* if both creations failed, and then started stays false and State is as
\* before; when the CO-RE tracer is created the trace is started with it,
\* and when only the standard one is created, with that one.
C37_FallbackToStandard ==
    [][ (~guestIO.started /\ guestIO'.op = "start" /\ guestIO'.n = guestIO.n + 1)
        => /\ guestIO'.OperationError # ""
                 <=> (guestIO'.met.core = "failed" /\ guestIO'.met.std = "failed")
           /\ guestIO'.OperationError # ""
                 => (~guestIO'.started /\ guestIO'.State = guestIO.State
                     /\ guestIO'.live = guestIO.live)
           /\ guestIO'.met.core = "ok"
                 => (guestIO'.started /\ guestIO'.tracer = "core"
                     /\ guestIO'.State = "Started")
           /\ (guestIO'.met.core = "failed" /\ guestIO'.met.std = "ok")
                 => (guestIO'.started /\ guestIO'.tracer = "standard"
                     /\ guestIO'.State = "Started") ]_vars

\* C37, witness: after a Start that failed twice, a Start whose CO-RE tracer
\* failed and whose standard tracer was created.
C37_Witness ==
    /\ guestIO.step = "trace"
    /\ guestIO.n = 2
    /\ guestIO.op = "start"
    /\ guestIO.met = [core |-> "failed", std |-> "ok"]
    /\ guestIO.tracer = "standard"
    /\ guestIO.started
    /\ guestIO.OperationError = ""

\* ---------------------------------------------- populating the metadata

\* Calls of Populate on one metadata.
MaxRuns == 2

IfaceParam == "iface"

\* The five strings of the metadata and the text Populate gives an empty one.
TodoText ==
    [Name |-> "TODO: Fill the gadget name",
     Description |-> "TODO: Fill the gadget description",
     HomepageURL |-> "TODO: Fill the gadget homepage URL",
     DocumentationURL |-> "TODO: Fill the gadget documentation URL",
     SourceURL |-> "TODO: Fill the gadget source code URL"]

MetaStrings == DOMAIN TodoText

\* m[k] = v on a Go map; a nil map is the empty function.
MapPut(f, k, v) == [x \in DOMAIN f \cup {k} |-> IF x = k THEN v ELSE f[x]]

\* The field populateStruct makes of a member.
NewField(name) == [Name |-> name, Description |-> "TODO: Fill field description"]

\* populateStruct: the members whose name the struct does not have yet are
\* appended to its fields, in the order of the members.
populateStruct(m, name, members) ==
    LET fields == IF name \in DOMAIN m.Structs THEN m.Structs[name] ELSE <<>>
        existingFields == {fields[i].Name : i \in DOMAIN fields}
        fresh == SelectSeq(members, LAMBDA n : n \notin existingFields)
    IN [m EXCEPT !.Structs =
            MapPut(m.Structs, name,
                   fields \o [i \in 1 .. Len(fresh) |-> NewField(fresh[i])])]

\* The eBPF object: the annotation it carries (a tracer, a tracer whose map
\* is missing, a topper, a snapshotter or none), the members of the struct
\* of the annotation, its parameter variables ("bad" fails checkParamVar)
\* and whether one of its programs is of type SchedCLS.
CollectionSpecs ==
    [kind : {"none", "tracer", "badtracer", "topper", "snapshotter"},
     members : {<<"pid", "comm">>},
     params : SUBSET {"p", "bad"},
     sched : BOOLEAN]

\* A result of one populate step: the metadata and whether it is an error.
Step(m, err) == [m |-> m, err |-> err]

\* populateTracers; the tracer of the model is tracer "t" with map "events"
\* and struct "event".
populateTracers(m, spec) ==
    IF spec.kind = "badtracer" THEN Step(m, TRUE)
    ELSE IF spec.kind # "tracer" THEN Step(m, FALSE)
    ELSE LET added == IF "t" \in DOMAIN m.Tracers THEN m
                      ELSE [m EXCEPT !.Tracers =
                               MapPut(m.Tracers, "t",
                                      [MapName |-> "events", StructName |-> "event"])]
         IN Step(populateStruct(added, "event", spec.members), FALSE)

\* populateToppers; topper "top" with map "stats" and struct "stat".
populateToppers(m, spec) ==
    IF spec.kind # "topper" THEN Step(m, FALSE)
    ELSE LET added == IF "top" \in DOMAIN m.Toppers THEN m
                      ELSE [m EXCEPT !.Toppers =
                               MapPut(m.Toppers, "top",
                                      [MapName |-> "stats", StructName |-> "stat"])]
         IN Step(populateStruct(added, "stat", spec.members), FALSE)

\* populateSnapshotters; snapshotter "snap" with struct "entry".
populateSnapshotters(m, spec) ==
    IF spec.kind # "snapshotter" THEN Step(m, FALSE)
    ELSE LET added == IF "snap" \in DOMAIN m.Snapshotters THEN m
                      ELSE [m EXCEPT !.Snapshotters =
                               MapPut(m.Snapshotters, "snap", [StructName |-> "entry"])]
         IN Step(populateStruct(added, "entry", spec.members), FALSE)

\* populateEbpfParams: every variable that passes its checks and is not yet
\* a parameter is added; a variable that fails makes the result an error
\* and the loop goes on.
populateEbpfParams(m, spec) ==
    LET good == spec.params \ {"bad"}
    IN Step([m EXCEPT !.EBPFParams =
                [k \in DOMAIN m.EBPFParams \cup good |->
                    IF k \in DOMAIN m.EBPFParams THEN m.EBPFParams[k]
                    ELSE [Key |-> k,
                          Description |-> "TODO: Fill parameter description"]]],
            "bad" \in spec.params)

\* populateGadgetParams: a program of type SchedCLS sets the parameter
\* "iface".
populateGadgetParams(m, spec) ==
    IF spec.sched
    THEN [m EXCEPT !.GadgetParams =
             MapPut(m.GadgetParams, IfaceParam,
                    [Key |-> IfaceParam,
                     Description |-> "Network interface to attach to"])]
    ELSE m

\* Populate: the strings, then the five steps, returning at the first error.
Populate(m, spec) ==
    LET m1 == [m EXCEPT !.str = [k \in MetaStrings |->
                                    IF m.str[k] = "" THEN TodoText[k] ELSE m.str[k]]]
        t == populateTracers(m1, spec)
        o == populateToppers(t.m, spec)
        s == populateSnapshotters(o.m, spec)
        e == populateEbpfParams(s.m, spec)
    IN IF t.err THEN t
       ELSE IF o.err THEN o
       ELSE IF s.err THEN s
       ELSE IF e.err THEN e
       ELSE Step(populateGadgetParams(e.m, spec), FALSE)

\* What the author of a metadata file wrote in it before Populate runs.
Mine == "mine"

AuthoredMaps(key, value) == {<<>>, [k \in {key} |-> value]}

AuthoredMetadata ==
    [str : [MetaStrings -> {"", Mine}],
     Tracers : AuthoredMaps("t", [MapName |-> Mine, StructName |-> "event"]),
     Toppers : AuthoredMaps("top", [MapName |-> Mine, StructName |-> "stat"]),
     Snapshotters : AuthoredMaps("snap", [StructName |-> "entry"]),
     Structs : AuthoredMaps("event", <<[Name |-> "comm", Description |-> Mine]>>),
     EBPFParams : AuthoredMaps("p", [Key |-> "p", Description |-> Mine]),
     GadgetParams : AuthoredMaps(IfaceParam, [Key |-> IfaceParam, Description |-> Mine])]

\* One call of Populate; before is the metadata as authored and once the
\* metadata after the first call.
MetaPopulate ==
    /\ guestIO.step = "populate"
    /\ guestIO.runs < MaxRuns
    /\ LET r == Populate(guestIO.m, guestIO.spec)
       IN guestIO' = [guestIO EXCEPT
                         !.m = r.m, !.err = r.err, !.runs = guestIO.runs + 1,
                         !.once = IF guestIO.runs = 0 THEN r.m ELSE guestIO.once]
    /\ UNCHANGED <<table, exports, stopResult, mod, phase, calls, bus, stack,
                   lastCall, hostPanic, trapped, oci>>

InitPopulate ==
    /\ handleMap = EmptyMap
    /\ handleMapNil = FALSE
    /\ handleCtr = 0
    /\ exports = {}
    /\ phase = "Loaded"
    /\ dataSources = [d \in {"dns"} |-> HostSource]
    /\ records = <<>>
    /\ stack = [t \in Threads |-> <<>>]
    /\ lastCall = NoCall
    /\ calls = 0
    /\ hostPanic = FALSE
    /\ trapped = FALSE
    /\ sinkSeen = {}
    /\ stopResult = ""
    /\ mod = "none"
    /\ oci = NoOci
    /\ \E m \in AuthoredMetadata, spec \in CollectionSpecs :
          guestIO = [step |-> "populate", before |-> m, m |-> m, once |-> m,
                     spec |-> spec, runs |-> 0, err |-> FALSE]

NextPopulate == MetaPopulate

\* Populate, called up to MaxRuns times on every authored metadata with
\* every eBPF object of the bounds.
SpecPopulate == InitPopulate /\ [][NextPopulate]_vars

\* Every entry of the map a is in the map b with the same value.
Kept(a, b) == \A k \in DOMAIN a : k \in DOMAIN b /\ b[k] = a[k]

\* C38: after Populate every entry the metadata defined before the call has
\* the value it had (the strings, tracers, toppers, snapshotters, struct
\* fields, eBPF parameters and gadget parameters), and a second call leaves
\* the metadata as the first one made it.
C38_PopulateOnlyAdds ==
    guestIO.step = "populate" =>
        /\ \A k \in MetaStrings :
              guestIO.before.str[k] # "" => guestIO.m.str[k] = guestIO.before.str[k]
        /\ Kept(guestIO.before.Tracers, guestIO.m.Tracers)
        /\ Kept(guestIO.before.Toppers, guestIO.m.Toppers)
        /\ Kept(guestIO.before.Snapshotters, guestIO.m.Snapshotters)
        /\ \A s \in DOMAIN guestIO.before.Structs :
              /\ s \in DOMAIN guestIO.m.Structs
              /\ Kept(guestIO.before.Structs[s], guestIO.m.Structs[s])
        /\ Kept(guestIO.before.EBPFParams, guestIO.m.EBPFParams)
        /\ Kept(guestIO.before.GadgetParams, guestIO.m.GadgetParams)
        /\ guestIO.runs >= 2 => guestIO.m = guestIO.once

\* ------------------------------------------- the init of trace_dns

\* What the host has for the guest: the data source "dns" and its fields
\* "name" and "uid"; the host answers a request for what it does not have
\* with handle 0.
HostHas == SUBSET {"dns", "name", "uid"}

\* The handle the host returns for thing: 0 when it does not have it, else
\* an id of the handle table that is not in use.
Granted(x, thing) ==
    IF thing \in x.has THEN (1 .. MaxHandle) \ {x.ds, x.nameF, x.uidF} ELSE {0}

\* The test gadgetInit makes after ds.GetField("uid").
UidMissing(x) == x.nameF = 0

\* The two programs of trace_dns: the first rewrites the name only, the
\* second also stores a uid.
DnsPrograms == {"name", "name+uid"}

\* The guest at the start of gadgetInit; uidSet is what the subscriber's
\* uidF.SetUint32 met at the host ("": not called).
NewInit(program, has) ==
    [step |-> "init", program |-> program, has |-> has,
     ds |-> 0, nameF |-> 0, uidF |-> 0,
     subscribed |-> FALSE, ret |-> -1, uidSet |-> ""]

\* api.GetDataSource("dns") and the test of its result.
InitGetDataSource(h) ==
    /\ guestIO.step = "init"
    /\ h \in Granted(guestIO, "dns")
    /\ guestIO' = IF h = 0
                  THEN [guestIO EXCEPT !.step = "returned", !.ret = 1]
                  ELSE [guestIO EXCEPT !.step = "ds", !.ds = h]
    /\ UNCHANGED <<table, exports, stopResult, mod, phase, calls, bus, stack,
                   lastCall, hostPanic, trapped, oci>>

\* ds.GetField("name") and the test of its result.
InitGetName(h) ==
    /\ guestIO.step = "ds"
    /\ h \in Granted(guestIO, "name")
    /\ guestIO' = IF h = 0
                  THEN [guestIO EXCEPT !.step = "returned", !.ret = 1]
                  ELSE [guestIO EXCEPT
                           !.step = IF guestIO.program = "name" THEN "uid"
                                    ELSE "name",
                           !.nameF = h]
    /\ UNCHANGED <<table, exports, stopResult, mod, phase, calls, bus, stack,
                   lastCall, hostPanic, trapped, oci>>

\* ds.GetField("uid") and the test that follows it.
InitGetUid(h) ==
    /\ guestIO.step = "name"
    /\ h \in Granted(guestIO, "uid")
    /\ LET got == [guestIO EXCEPT !.uidF = h]
       IN guestIO' = IF UidMissing(got)
                     THEN [got EXCEPT !.step = "returned", !.ret = 1]
                     ELSE [got EXCEPT !.step = "uid"]
    /\ UNCHANGED <<table, exports, stopResult, mod, phase, calls, bus, stack,
                   lastCall, hostPanic, trapped, oci>>

\* ds.Subscribe(...) and return 0.
InitSubscribe ==
    /\ guestIO.step = "uid"
    /\ guestIO' = [guestIO EXCEPT !.step = "returned", !.subscribed = TRUE,
                                  !.ret = 0]
    /\ UNCHANGED <<table, exports, stopResult, mod, phase, calls, bus, stack,
                   lastCall, hostPanic, trapped, oci>>

\* The subscriber called with a record: the second program starts with
\* uidF.SetUint32(data, 1234), which the host refuses for a handle it does
\* not know.
InitOnData ==
    /\ guestIO.step = "returned"
    /\ guestIO.subscribed
    /\ guestIO.uidSet = ""
    /\ guestIO.program = "name+uid"
    /\ guestIO' = [guestIO EXCEPT
                      !.uidSet = IF guestIO.uidF = 0 THEN "handle not found"
                                 ELSE "stored"]
    /\ UNCHANGED <<table, exports, stopResult, mod, phase, calls, bus, stack,
                   lastCall, hostPanic, trapped, oci>>

InitDnsInit ==
    /\ handleMap = EmptyMap
    /\ handleMapNil = FALSE
    /\ handleCtr = 0
    /\ exports = {}
    /\ phase = "Loaded"
    /\ dataSources = [d \in {"dns"} |-> HostSource]
    /\ records = <<>>
    /\ stack = [t \in Threads |-> <<>>]
    /\ lastCall = NoCall
    /\ calls = 0
    /\ hostPanic = FALSE
    /\ trapped = FALSE
    /\ sinkSeen = {}
    /\ stopResult = ""
    /\ mod = "none"
    /\ oci = NoOci
    /\ \E program \in DnsPrograms, has \in HostHas :
          guestIO = NewInit(program, has)

NextDnsInit ==
    \/ \E h \in 0 .. MaxHandle : InitGetDataSource(h)
    \/ \E h \in 0 .. MaxHandle : InitGetName(h)
    \/ \E h \in 0 .. MaxHandle : InitGetUid(h)
    \/ InitSubscribe
    \/ InitOnData

\* gadgetInit of trace_dns, one host call at a time, on every host.
SpecDnsInit == InitDnsInit /\ [][NextDnsInit]_vars

\* C39: when the init of the program that uses uid has returned and the
\* host gave handle 0 for the data source, the field name or the field uid,
\* the result is not 0 and nothing was subscribed.
C39_InitFailsWithoutHandles ==
    (guestIO.step = "returned" /\ guestIO.program = "name+uid"
        /\ (guestIO.ds = 0 \/ guestIO.nameF = 0 \/ guestIO.uidF = 0))
    => (guestIO.ret # 0 /\ ~guestIO.subscribed)

\* ------------------------------------------- the common flags of the CLI

\* Parts of --runtimes (the pieces between commas), and calls of the hook
\* on one CommonFlags.
MaxParts == 3

MaxHooks == 2

\* A part as written, and what strings.TrimSpace makes of it.
RuntimeParts == {"docker", " docker", "containerd", "cri-o", "podman", "runc", ""}

TrimSpace(p) == IF p = " docker" THEN "docker" ELSE p

RuntimeNames == {"docker", "containerd", "cri-o", "podman"}

\* types.String2RuntimeName: a runtime name for the four names it knows.
String2RuntimeName(p) == IF p \in RuntimeNames THEN p ELSE "unknown"

RuntimeProtocols == {"internal", "cri"}

\* The socket path flags the caller may have changed, and the socket path
\* of a runtime: a pointer into the flags when its flag was changed,
\* else nil.
SocketPathFlags == {"docker", "containerd"}

SocketPath(flags, runtimeName) ==
    IF runtimeName \in flags.changed THEN runtimeName ELSE "nil"

Duplicated_Never(configs, runtimeName) == FALSE

\* The inner loop of the hook: the runtime is already in RuntimeConfigs.
Duplicated(configs, runtimeName) ==
    \E i \in 1 .. Len(configs) : configs[i].Name = runtimeName

RuntimeConfig(flags, runtimeName) ==
    [Name |-> runtimeName,
     SocketPath |-> SocketPath(flags, runtimeName),
     RuntimeProtocol |-> flags.RuntimeProtocol,
     Namespace |-> IF runtimeName = "containerd" THEN flags.ContainerdNamespace
                   ELSE ""]

\* partsLoop from part i on: an unknown runtime ends it with an error, what
\* was appended before stays appended.
RECURSIVE PartsLoop(_, _, _)
PartsLoop(flags, i, configs) ==
    IF i > Len(flags.Runtimes) THEN [configs |-> configs, err |-> ""]
    ELSE LET runtimeName == String2RuntimeName(TrimSpace(flags.Runtimes[i]))
         IN IF runtimeName = "unknown"
            THEN [configs |-> configs, err |-> "invalid argument"]
            ELSE IF Duplicated(configs, runtimeName)
            THEN PartsLoop(flags, i + 1, configs)
            ELSE PartsLoop(flags, i + 1,
                           Append(configs, RuntimeConfig(flags, runtimeName)))

\* The hook AddCommonFlags installs as PersistentPreRunE.
PersistentPreRunE(flags) ==
    IF flags.RuntimeProtocol \notin RuntimeProtocols
    THEN [flags EXCEPT !.err = "invalid argument"]
    ELSE LET r == PartsLoop(flags, 1, flags.RuntimeConfigs)
         IN [flags EXCEPT
                !.RuntimeConfigs = r.configs,
                !.err = IF r.err # "" THEN r.err
                        ELSE IF flags.outputOk THEN "" ELSE "output mode"]

RECURSIVE PartsUpTo(_)
PartsUpTo(n) ==
    IF n = 1 THEN {<<p>> : p \in RuntimeParts}
    ELSE PartsUpTo(n - 1)
         \cup {Append(ps, p) : ps \in PartsUpTo(n - 1), p \in RuntimeParts}

\* The flags as the command line set them; strings.Split gives at least
\* one part. runs counts the calls of the hook and err is the error of the
\* last one ("": nil).
CommonFlags ==
    [Runtimes : PartsUpTo(MaxParts), RuntimeProtocol : RuntimeProtocols \cup {"grpc"},
     ContainerdNamespace : {"k8s.io"}, changed : SUBSET SocketPathFlags,
     outputOk : BOOLEAN, RuntimeConfigs : {<<>>}, err : {""}, runs : {0},
     step : {"flags"}]

RunHook ==
    /\ guestIO.step = "flags"
    /\ guestIO.runs < MaxHooks
    /\ guestIO' = [PersistentPreRunE(guestIO) EXCEPT !.runs = guestIO.runs + 1]
    /\ UNCHANGED <<table, exports, stopResult, mod, phase, calls, bus, stack,
                   lastCall, hostPanic, trapped, oci>>

InitFlags ==
    /\ handleMap = EmptyMap
    /\ handleMapNil = FALSE
    /\ handleCtr = 0
    /\ exports = {}
    /\ phase = "Loaded"
    /\ dataSources = [d \in {"dns"} |-> HostSource]
    /\ records = <<>>
    /\ stack = [t \in Threads |-> <<>>]
    /\ lastCall = NoCall
    /\ calls = 0
    /\ hostPanic = FALSE
    /\ trapped = FALSE
    /\ sinkSeen = {}
    /\ stopResult = ""
    /\ mod = "none"
    /\ oci = NoOci
    /\ guestIO \in CommonFlags

NextFlags == RunHook

\* The hook, called up to MaxHooks times on every CommonFlags of the bounds.
SpecFlags == InitFlags /\ [][NextFlags]_vars

\* The runtime names of --runtimes, each at its first occurrence.
RECURSIVE FirstOccurrences(_, _)
FirstOccurrences(parts, i) ==
    IF i = 0 THEN <<>>
    ELSE LET before == FirstOccurrences(parts, i - 1)
             name == TrimSpace(parts[i])
         IN IF \E j \in 1 .. Len(before) : before[j] = name THEN before
            ELSE Append(before, name)

ConfigNames(configs) == [i \in 1 .. Len(configs) |-> configs[i].Name]

\* C40: after a call of the hook that returned nil, the names of
\* RuntimeConfigs are the runtime names of --runtimes, each once, in the
\* order of their first occurrence, at the first call and at a later one;
\* a runtime protocol or a runtime name that is not supported makes the
\* call return an invalid-argument error.
C40_OneConfigPerRuntime ==
    (guestIO.step = "flags" /\ guestIO.runs > 0) =>
        /\ guestIO.err = ""
              => ConfigNames(guestIO.RuntimeConfigs)
                    = FirstOccurrences(guestIO.Runtimes, Len(guestIO.Runtimes))
        /\ guestIO.err = ""
              => \A i, j \in 1 .. Len(guestIO.RuntimeConfigs) :
                    guestIO.RuntimeConfigs[i].Name = guestIO.RuntimeConfigs[j].Name
                       => i = j
        /\ (guestIO.RuntimeProtocol \notin RuntimeProtocols
              \/ \E i \in 1 .. Len(guestIO.Runtimes) :
                    TrimSpace(guestIO.Runtimes[i]) \notin RuntimeNames)
              => guestIO.err = "invalid argument"

\* C40, witness: the hook has run twice without error on
\* --runtimes "cri-o, docker,docker" and holds cri-o and docker, once each.
C40_Witness ==
    /\ guestIO.step = "flags"
    /\ guestIO.runs = 2
    /\ guestIO.err = ""
    /\ guestIO.Runtimes = <<"cri-o", " docker", "docker">>
    /\ ConfigNames(guestIO.RuntimeConfigs) = <<"cri-o", "docker">>

====
